---- MODULE Spec2Model ----
(***************************************************************************)
(* Verification model of osm2ultima (tools/osm2ultima): the coordinate     *)
(* transformer, the chunked UltimaMap, the IREG record encoder and the     *)
(* IREG exporter, the seeded NPC placement of one generation run, the      *)
(* point-in-polygon test, the building planner (floor, walls, door, roof,  *)
(* rooms, furniture, occupants and their relationships), the width-aware   *)
(* line painter with the road registry, MapGenerator sessions sharing the  *)
(* random module of one process, and process_osm_data over element lists   *)
(* (node cache, way dispatch, areas, waterways, barriers, point features,  *)
(* the final default-terrain fill).                                        *)
(*                                                                         *)
(* Floating-point longitudes and latitudes are modelled as exact rationals *)
(* num/den over integer coordinate units; Python's int() is truncation     *)
(* toward zero, // and % are floor division and floor modulo.              *)
(***************************************************************************)
EXTENDS Integers, Sequences, FiniteSets, TLC

VARIABLES
    bbox,        \* CoordinateTransformer: <<min_lon, min_lat, max_lon, max_lat>>
    map_size,    \* <<width_chunks, height_chunks>>
    point,       \* the (lon, lat) handed to osm_to_ultima, or None
    tile,        \* the (tile_x, tile_y) osm_to_ultima returned for it, or None
    chunks,      \* UltimaMap.chunks: chunk key -> [terrain, objects]
    chunkOrder,  \* insertion order of the keys of UltimaMap.chunks (dict order)
    handle,      \* key of the chunk object last returned by get_chunk, or None
    lastOp,      \* the UltimaMap / exporter call made by the last step
    painted,     \* history: tile -> id of the last terrain write to that tile
    added,       \* history: the objects handed to add_object, in call order
    files,       \* output directory: file name -> bytes written so far
    exports,     \* history: outcome of each export_ireg call, in call order
    encIn,       \* <<obj>> for the last call obj.to_ireg_bytes(), <<>> before any
    encOut,      \* <<outcome>> of that call: bytes returned or exception raised
    seed,        \* --seed of both runs
    building,    \* the building interior both runs process
    runs,        \* the two generation runs (processes) compared
    polygon,     \* the tile-space vertex list handed to _point_in_polygon
    probe,       \* the tile (x, y) tested against it
    inside,      \* <<result>> of that call, <<>> before it
    grng,        \* state of the process-wide generator of the random module
    sessions,    \* the MapGenerator instances living in one process
    hist,        \* history: per session, the handler calls made, in order
    osm          \* per session, the process_osm_data call it is in, if any

vars == <<bbox, map_size, point, tile, chunks, chunkOrder, handle, lastOp,
          painted, added, files, exports, encIn, encOut, seed, building, runs,
          polygon, probe, inside, grng, sessions, hist, osm>>

None == "None"

\* ------------------------------------------------------------------ bounds

\* Largest world size in chunks, per axis.
MaxChunks == 2
\* Bounding-box corners range over 0 .. BoxSpan coordinate units.
BoxSpan == 3
\* Points range over -PointPad .. BoxSpan + PointPad: inside and outside any box.
PointPad == 1
\* Most add_object calls in one behaviour.
MaxObjects == 2
\* Most distinct tiles whose terrain is written in one behaviour.
MaxPaints == 3
\* Most export_ireg calls against the same output directory.
MaxExports == 2
\* Seeds range over 0 .. MaxSeed.
MaxSeed == 7
\* Per-process string-hash keys range over 0 .. MaxHashKey.
MaxHashKey == 2

\* rectangle corners tested by the polygon fill range over 0..RectMax (and 10)
RectMax == 2

\* tested tiles range from ProbePad below to ProbePad above the corners
ProbePad == 1

\* A session processes at most MaxFeatures features.
MaxFeatures == 2

\* Profiles are created directly up to MaxProfiles per session.
MaxProfiles == 2

\* Number of interiors one session generates.
MaxInteriors == 1

\* --------------------------------------------------------- Python numerics

Max(a, b) == IF a >= b THEN a ELSE b
Min(a, b) == IF a <= b THEN a ELSE b

\* int(num/den) for den > 0: truncation toward zero.
IntTrunc(num, den) ==
    IF num >= 0 THEN num \div den ELSE -((-num) \div den)

RECURSIVE BitAnd(_, _)
BitAnd(a, b) ==
    IF a = 0 \/ b = 0 THEN 0
    ELSE (IF a % 2 = 1 /\ b % 2 = 1 THEN 1 ELSE 0) + 2 * BitAnd(a \div 2, b \div 2)

RECURSIVE BitOr(_, _)
BitOr(a, b) ==
    IF a = 0 THEN b
    ELSE IF b = 0 THEN a
    ELSE (IF a % 2 = 1 \/ b % 2 = 1 THEN 1 ELSE 0) + 2 * BitOr(a \div 2, b \div 2)

RECURSIVE Pow2(_)
Pow2(n) == IF n = 0 THEN 1 ELSE 2 * Pow2(n - 1)

ShiftLeft(a, n) == a * Pow2(n)
ShiftRight(a, n) == a \div Pow2(n)

\* ------------------------------------------------- CoordinateTransformer

TilesPerChunk == 16

BoxCoords == 0 .. BoxSpan
PointCoords == (0 - PointPad) .. (BoxSpan + PointPad)
WorldSizes == (1 .. MaxChunks) \X (1 .. MaxChunks)
\* Any four corners: regular, zero-span and inverted boxes alike.
BBoxes == BoxCoords \X BoxCoords \X BoxCoords \X BoxCoords

lon_range(bb) == bb[3] - bb[1]
lat_range(bb) == bb[4] - bb[2]
tiles_x(ms) == ms[1] * TilesPerChunk
tiles_y(ms) == ms[2] * TilesPerChunk

NormalizeZeroDefault(v, lo, range) ==
    IF range > 0 THEN <<v - lo, range>> ELSE <<0, 1>>

\* norm = (v - lo) / range if range > 0 else 0.5, as <<numerator, denominator>>.
Normalize(v, lo, range) ==
    IF range > 0 THEN <<v - lo, range>> ELSE <<1, 2>>

NoFlip(n) == n

\* norm_y = 1.0 - norm_y
FlipAxis(n) == <<n[2] - n[1], n[2]>>

\* int(norm * tiles)
ScaleToTiles(n, tiles) == IntTrunc(n[1] * tiles, n[2])

ClampNoUpper(v, tiles) == Max(0, v)

\* max(0, min(tiles - 1, v))
Clamp(v, tiles) == Max(0, Min(tiles - 1, v))

osm_to_ultima(bb, ms, lon, lat) ==
    LET norm_x == Normalize(lon, bb[1], lon_range(bb))
        norm_y == FlipAxis(Normalize(lat, bb[2], lat_range(bb)))
    IN  <<Clamp(ScaleToTiles(norm_x, tiles_x(ms)), tiles_x(ms)),
          Clamp(ScaleToTiles(norm_y, tiles_y(ms)), tiles_y(ms))>>

\* ------------------------------------------------------------ UltimaMap

\* Default terrain id of a fresh chunk ("default grass").
DefaultTerrain == 4

Local == 0 .. (TilesPerChunk - 1)

\* UltimaObject(shape, frame=0, x=0, y=0, lift=0, quality=0, flags=0)
UltimaObject(shape, frame, x, y, lift, quality) ==
    [cls |-> "UltimaObject", shape |-> shape, frame |-> frame, x |-> x, y |-> y,
     lift |-> lift, quality |-> quality, flags |-> 0]

\* UltimaChunk(): terrain[ly][lx] = 4 for a 16x16 grid, no objects.
UltimaChunk ==
    [terrain |-> [ly \in Local |-> [lx \in Local |-> DefaultTerrain]],
     objects |-> <<>>]

ChunkKey(x, y) == <<x \div TilesPerChunk, y \div TilesPerChunk>>
SwappedChunkKey(x, y) == <<y \div TilesPerChunk, x \div TilesPerChunk>>

\* The map as one value: the chunks dict and its insertion order.
Grid == [chunks |-> chunks, order |-> chunkOrder]

get_chunk_fresh(g, cx, cy) ==
    [chunks |-> [k \in DOMAIN g.chunks \cup {<<cx, cy>>} |->
                    IF k = <<cx, cy>> THEN UltimaChunk ELSE g.chunks[k]],
     order  |-> IF <<cx, cy>> \in DOMAIN g.chunks THEN g.order
                ELSE Append(g.order, <<cx, cy>>)]

\* UltimaMap.get_chunk: the map after the call; the chunk returned is the one
\* stored under <<cx, cy>>.
get_chunk(g, cx, cy) ==
    IF <<cx, cy>> \in DOMAIN g.chunks THEN g
    ELSE [chunks |-> g.chunks @@ (<<cx, cy>> :> UltimaChunk),
          order  |-> Append(g.order, <<cx, cy>>)]

\* chunk.terrain[ly][lx] = shape on the chunk stored under key.
WriteCell(g, key, ly, lx, shape) ==
    [g EXCEPT !.chunks[key].terrain[ly][lx] = shape]

set_terrain_transposed(g, tile_x, tile_y, shape) ==
    LET key == ChunkKey(tile_x, tile_y)
    IN  WriteCell(get_chunk(g, key[1], key[2]), key,
                  tile_x % TilesPerChunk, tile_y % TilesPerChunk, shape)

\* UltimaMap.set_terrain
set_terrain(g, tile_x, tile_y, shape) ==
    LET key == ChunkKey(tile_x, tile_y)
        lx  == tile_x % TilesPerChunk
        ly  == tile_y % TilesPerChunk
    IN  WriteCell(get_chunk(g, key[1], key[2]), key, ly, lx, shape)

add_object_swapped(g, obj) ==
    LET key == SwappedChunkKey(obj.x, obj.y)
        g1  == get_chunk(g, key[1], key[2])
    IN  [g1 EXCEPT !.chunks[key].objects = Append(@, obj)]

\* UltimaMap.add_object
add_object(g, obj) ==
    LET key == ChunkKey(obj.x, obj.y)
        g1  == get_chunk(g, key[1], key[2])
    IN  [g1 EXCEPT !.chunks[key].objects = Append(@, obj)]

\* Reading a tile's terrain back through its owning chunk.
TerrainAt(ch, x, y) ==
    ch[ChunkKey(x, y)].terrain[y % TilesPerChunk][x % TilesPerChunk]

\* ------------------------------------------------- IREG record encoding

\* The outcome of a call: the bytes returned, or the exception raised.
Returned(b) == [exc |-> None, bytes |-> b]
Raised(e) == [exc |-> e, bytes |-> <<>>]

RecordLength == 10

\* The methods each dataclass body defines. to_ireg_bytes is indented under
\* NPCProfile (after its relationships field); the body of UltimaObject holds
\* fields only.
ClassMethods(cls) ==
    IF cls = "NPCProfile" THEN {"to_ireg_bytes"} ELSE {}

\* The fields an instance of each dataclass has.
ClassFields(cls) ==
    IF cls = "UltimaObject"
    THEN {"shape", "frame", "x", "y", "lift", "quality", "flags"}
    ELSE {"id", "name", "profession", "building_type", "location", "shape",
          "openness", "conscientiousness", "extraversion", "agreeableness",
          "neuroticism", "dialogues", "schedule", "knowledge_domains",
          "relationships"}

\* The ten values to_ireg_bytes stores into its bytearray.
IregBuf(self) ==
    LET chunk_x == self.x \div TilesPerChunk
        chunk_y == self.y \div TilesPerChunk
        local_x == self.x % TilesPerChunk
        local_y == self.y % TilesPerChunk
    IN  << RecordLength,
           BitOr(ShiftLeft(chunk_x % 16, 4), local_x),
           BitOr(ShiftLeft(chunk_y % 16, 4), local_y),
           BitAnd(self.shape, 255),
           BitOr(BitAnd(ShiftRight(self.shape, 8), 3), ShiftLeft(self.frame, 2)),
           BitAnd(self.lift, 15),
           BitAnd(self.quality, 255),
           0, 0, 0 >>

\* The function body of to_ireg_bytes run on self: reading a field self lacks
\* raises AttributeError, storing a value outside 0..255 raises ValueError.
to_ireg_bytes(self) ==
    IF ~({"x", "y", "shape", "frame", "lift", "quality"} \subseteq ClassFields(self.cls))
    THEN Raised("AttributeError")
    ELSE IF \E i \in 1 .. RecordLength : IregBuf(self)[i] \notin 0 .. 255
    THEN Raised("ValueError")
    ELSE Returned(IregBuf(self))

\* obj.to_ireg_bytes(): attribute lookup on the class of obj, then the call.
CallToIregBytes(obj) ==
    IF "to_ireg_bytes" \in ClassMethods(obj.cls)
    THEN to_ireg_bytes(obj)
    ELSE Raised("AttributeError")

\* ------------------------------------------------------- MapExporter

HexDigits == <<"0", "1", "2", "3", "4", "5", "6", "7",
               "8", "9", "a", "b", "c", "d", "e", "f">>

RECURSIVE HexStr(_)
HexStr(n) ==
    IF n < 16 THEN HexDigits[n + 1]
    ELSE HexStr(n \div 16) \o HexDigits[(n % 16) + 1]

\* f"{n:02x}" for n >= 0
Hex02(n) == IF n < 16 THEN "0" \o HexStr(n) ELSE HexStr(n)

SuperchunksPerRow == 12
ChunksPerSuperchunk == 16

\* sc_index = (cy // 16) * 12 + (cx // 16)
SuperchunkIndex(key) ==
    (key[2] \div ChunksPerSuperchunk) * SuperchunksPerRow
        + (key[1] \div ChunksPerSuperchunk)

\* os.path.join(output_dir, f"u7ireg{sc_index:02x}"), relative to output_dir
IregFileName(sc_index) == "u7ireg" \o Hex02(sc_index)

\* for obj in chunk.objects: f.write(obj.to_ireg_bytes()) -- stops at the
\* first exception; what was written before it stays in the file.
RECURSIVE WriteObjects(_, _, _)
WriteObjects(content, objs, i) ==
    IF i > Len(objs) THEN [content |-> content, exc |-> None]
    ELSE LET rec == CallToIregBytes(objs[i])
         IN  IF rec.exc # None THEN [content |-> content, exc |-> rec.exc]
             ELSE WriteObjects(content \o rec.bytes, objs, i + 1)

\* open(filename, "ab"): the file is created empty when absent, kept otherwise.
OpenAppend(fs, name) == IF name \in DOMAIN fs THEN fs[name] ELSE <<>>

\* The loop of export_ireg over self.ultima_map.chunks.items(), from the i-th
\* chunk in dict order on.
RECURSIVE ExportChunks(_, _, _)
ExportChunks(fs, g, i) ==
    IF i > Len(g.order) THEN [files |-> fs, exc |-> None]
    ELSE LET key   == g.order[i]
             chunk == g.chunks[key]
         IN  IF chunk.objects = <<>> THEN ExportChunks(fs, g, i + 1)
             ELSE LET name == IregFileName(SuperchunkIndex(key))
                      w    == WriteObjects(OpenAppend(fs, name), chunk.objects, 1)
                      fs1  == [n \in DOMAIN fs \cup {name} |->
                                 IF n = name THEN w.content ELSE fs[n]]
                  IN  IF w.exc # None THEN [files |-> fs1, exc |-> w.exc]
                      ELSE ExportChunks(fs1, g, i + 1)

\* MapExporter.export_ireg
export_ireg(fs, g) == ExportChunks(fs, g, 1)

\* ------------------------------------------------ the random generator

\* The module-level generator of `random`: a deterministic function of the
\* seed, modelled as a full-period linear congruential generator. Every draw
\* advances the state and derives its value from the new state.
RngModulus == 65537
RngMultiplier == 75
RngIncrement == 74

\* random.seed(seed_value)
Seeded(seed_value) == seed_value % RngModulus

Advance(s) == (s * RngMultiplier + RngIncrement) % RngModulus

\* random.random(), in thousandths: a value in [0, 1000)
RandomOf(s) == s % 1000
\* random.randint(a, b)
RandIntOf(s, a, b) == a + (s % (b - a + 1))
\* random.choice(seq)
ChoiceOf(s, seq) == seq[1 + (s % Len(seq))]
\* random.uniform(a, b), in thousandths, for a, b in thousandths
UniformOf(s, a, b) == a + (s % (b - a + 1))

\* ------------------------------------------------------ NPC placement

NPC_SHAPES ==
    [townsman |-> <<265, 319, 452>>, townswoman |-> <<459>>,
     noble_male |-> <<451, 456>>, noble_female |-> <<451, 456>>,
     child |-> <<471, 472>>, guard |-> <<394>>, shopkeeper |-> <<454, 455>>,
     blacksmith |-> <<304>>, farmer |-> <<319, 452>>,
     fighter |-> <<259, 462, 463>>, entertainer |-> <<468, 469>>,
     sage |-> <<318, 448>>]

\* npc_mapping.get(building_type, ["townsman"]) of _place_building_npcs
NpcTypesFor(building_type) ==
    CASE building_type = "house" -> <<"townsman", "townswoman">>
      [] building_type = "residential" -> <<"townsman", "townswoman", "child">>
      [] building_type \in {"shop", "retail"} -> <<"shopkeeper">>
      [] building_type = "commercial" -> <<"shopkeeper", "townsman">>
      [] building_type \in {"church", "hospital", "school"} -> <<"sage">>
      [] building_type = "castle" -> <<"guard", "noble_male", "noble_female">>
      [] building_type = "fort" -> <<"guard", "fighter">>
      [] building_type = "government" -> <<"guard", "noble_male">>
      [] building_type = "tavern" -> <<"entertainer", "townsman", "townswoman">>
      [] building_type \in {"farm", "barn"} -> <<"farmer">>
      [] building_type = "industrial" -> <<"blacksmith", "townsman">>
      [] OTHER -> <<"townsman">>

\* get_npc_with_dialogue(npc_type)["shapes"]: the profession's shape list.
NpcShapesOf(npc_type) == NPC_SHAPES[npc_type]

\* hash(s) of a str: keyed by the process (hash randomisation), the same for
\* equal strings within one process. The string enters by its length and the
\* process by its key.
StrHash(str, key) == Len(str) * 1000003 + key * 7919

\* personality_profiles.get(npc_type, all 0.5), in thousandths
BaseTraits(npc_type) ==
    CASE npc_type = "townsman" -> <<400, 500, 500, 600, 400>>
      [] npc_type = "townswoman" -> <<500, 600, 500, 700, 400>>
      [] npc_type = "child" -> <<800, 300, 800, 600, 500>>
      [] npc_type = "guard" -> <<300, 800, 400, 400, 300>>
      [] npc_type = "shopkeeper" -> <<500, 700, 700, 600, 300>>
      [] npc_type = "blacksmith" -> <<400, 800, 400, 500, 300>>
      [] npc_type = "farmer" -> <<300, 700, 400, 600, 400>>
      [] npc_type = "sage" -> <<800, 700, 300, 600, 300>>
      [] npc_type = "fighter" -> <<400, 600, 500, 300, 400>>
      [] npc_type = "noble_male" -> <<500, 600, 600, 300, 400>>
      [] npc_type = "noble_female" -> <<600, 600, 500, 400, 500>>
      [] npc_type = "entertainer" -> <<800, 400, 900, 700, 500>>
      [] OTHER -> <<500, 500, 500, 500, 500>>

VaryUnclamped(base, s) == base + UniformOf(s, -150, 150)

\* vary(base) = max(0.0, min(1.0, base + random.uniform(-0.15, 0.15)))
Vary(base, s) == Max(0, Min(1000, base + UniformOf(s, -150, 150)))

NameCount == 10

DecDigits == <<"0", "1", "2", "3", "4", "5", "6", "7", "8", "9">>

\* str(n) for n >= 0
RECURSIVE DecStr(_)
DecStr(n) ==
    IF n < 10 THEN DecDigits[n + 1]
    ELSE DecStr(n \div 10) \o DecDigits[(n % 10) + 1]

\* f"{n:04d}" for n >= 0: zero-padded to at least four digits
Dec04(n) ==
    IF n < 10 THEN "000" \o DecStr(n)
    ELSE IF n < 100 THEN "00" \o DecStr(n)
    ELSE IF n < 1000 THEN "0" \o DecStr(n)
    ELSE DecStr(n)

\* npc_id = f"npc_{self.npc_counter:04d}"
NpcId(npc_counter) == "npc_" \o Dec04(npc_counter)

KeepNpcCounter(npc_counter) == npc_counter

\* self.npc_counter += 1
NextNpcCounter(npc_counter) == npc_counter + 1

\* _create_npc_profile: one draw for the name, then one per trait in the
\* order openness, conscientiousness, extraversion, agreeableness,
\* neuroticism. st is the session: rng, grid, npc_profiles, npc_counter.
create_npc_profile(st, npc_type, building_type, x, y, shape) ==
    LET s0 == Advance(st.rng)
        s1 == Advance(s0)
        s2 == Advance(s1)
        s3 == Advance(s2)
        s4 == Advance(s3)
        s5 == Advance(s4)
        base == BaseTraits(npc_type)
        profile ==
            [id |-> NpcId(NextNpcCounter(st.npc_counter)),
             name |-> <<npc_type \in {"townswoman", "noble_female"}, s0 % NameCount>>,
             profession |-> npc_type,
             building_type |-> building_type,
             location |-> <<x, y>>,
             shape |-> shape,
             traits |-> <<Vary(base[1], s1), Vary(base[2], s2), Vary(base[3], s3),
                          Vary(base[4], s4), Vary(base[5], s5)>>,
             relationships |-> [k \in {} |-> 0]]
    IN  [st EXCEPT !.rng = s5,
                   !.npc_counter = NextNpcCounter(@),
                   !.npc_profiles = Append(@, profile)]

MaxAttempts == 10

\* An exception raised inside a handler: it propagates out of the generation
\* pass, which catches nothing; the session keeps what was done before it.
Raise(st, exception) == [st EXCEPT !.exc = exception]

\* The while loop of _place_building_npcs for one NPC: up to 10 attempts.
\* loc carries the handler's locals placed_positions and building_npcs.
RECURSIVE TryPlaceNpc(_, _, _, _, _, _, _)
TryPlaceNpc(st, loc, npc_type, building_type, box, key, attempts) ==
    IF attempts >= MaxAttempts THEN [st |-> st, loc |-> loc]
    \* random.randint(a, b) with a > b raises ValueError (empty range)
    ELSE IF box[1] > box[3] THEN [st |-> Raise(st, "ValueError"), loc |-> loc]
    ELSE IF box[2] > box[4]
    THEN [st |-> Raise([st EXCEPT !.rng = Advance(@)], "ValueError"), loc |-> loc]
    ELSE LET sx == Advance(st.rng)
             sy == Advance(sx)
             x  == RandIntOf(sx, box[1], box[3])
             y  == RandIntOf(sy, box[2], box[4])
         IN  IF <<x, y>> \notin loc.placed
             THEN LET ss    == Advance(sy)
                      shape == ChoiceOf(ss, NpcShapesOf(npc_type))
                      npc   == UltimaObject(shape, 0, x, y, 0,
                                            StrHash(npc_type, key) % 256)
                      st1   == [st EXCEPT !.rng = ss, !.grid = add_object(@, npc)]
                      st2   == create_npc_profile(st1, npc_type, building_type,
                                                  x, y, shape)
                  IN  [st  |-> st2,
                       loc |-> [placed |-> loc.placed \cup {<<x, y>>},
                                npcs   |-> Append(loc.npcs,
                                                  st2.npc_profiles[Len(st2.npc_profiles)].id)]]
             ELSE TryPlaceNpc([st EXCEPT !.rng = sy], loc, npc_type,
                              building_type, box, key, attempts + 1)

\* for _ in range(num_npcs): choose a profession, then place it.
RECURSIVE PlaceNpcs(_, _, _, _, _, _)
PlaceNpcs(st, loc, building_type, box, key, remaining) ==
    IF remaining = 0 THEN [st |-> st, loc |-> loc]
    ELSE LET s        == Advance(st.rng)
             npc_type == ChoiceOf(s, NpcTypesFor(building_type))
             st1      == [st EXCEPT !.rng = s]
             r        == IF NpcShapesOf(npc_type) = <<>>
                         THEN [st |-> st1, loc |-> loc]
                         ELSE TryPlaceNpc(st1, loc, npc_type, building_type,
                                          box, key, 0)
         IN  IF r.st.exc # None THEN r
             ELSE PlaceNpcs(r.st, r.loc, building_type, box, key, remaining - 1)

\* _create_building_relationships: for each profile of the building, in
\* npc_profiles order, one uniform(0.3, 0.7) draw per other id in npc_ids order.
\* d[k] = v on a dict
DictSet(d, k, v) == [j \in DOMAIN d \cup {k} |-> IF j = k THEN v ELSE d[j]]

RECURSIVE RelateOne(_, _, _, _)
RelateOne(st, p, npc_ids, j) ==
    IF j > Len(npc_ids) THEN st
    ELSE IF npc_ids[j] = st.npc_profiles[p].id
    THEN RelateOne(st, p, npc_ids, j + 1)
    ELSE LET s == Advance(st.rng)
         IN  RelateOne([st EXCEPT !.rng = s,
                                  !.npc_profiles[p].relationships =
                                      DictSet(@, npc_ids[j], UniformOf(s, 300, 700))],
                       p, npc_ids, j + 1)

RECURSIVE RelateAll(_, _, _)
RelateAll(st, npc_ids, p) ==
    IF p > Len(st.npc_profiles) THEN st
    ELSE IF \E j \in 1 .. Len(npc_ids) : npc_ids[j] = st.npc_profiles[p].id
    THEN RelateAll(RelateOne(st, p, npc_ids, 1), npc_ids, p + 1)
    ELSE RelateAll(st, npc_ids, p + 1)

relate_whole_session(st, npc_ids) ==
    IF Len(st.npc_profiles) < 2 THEN st
    ELSE RelateAll(st, [p \in 1..Len(st.npc_profiles) |-> st.npc_profiles[p].id], 1)

create_building_relationships(st, npc_ids) ==
    IF Len(npc_ids) < 2 THEN st ELSE RelateAll(st, npc_ids, 1)

NpcTierLargest(area) == <<3, 600>>

\* (max_npcs, npc_chance in thousandths) by interior area
NpcTier(area) ==
    IF area < 16 THEN <<1, 400>>
    ELSE IF area < 36 THEN <<2, 500>>
    ELSE <<3, 600>>

\* _place_building_npcs(building_type, min_x, min_y, max_x, max_y) in a
\* process whose string-hash key is key; box = <<min_x, min_y, max_x, max_y>>.
place_building_npcs(st, building_type, box, key) ==
    LET width  == box[3] - box[1]
        height == box[4] - box[2]
        tier   == NpcTier(width * height)
        s1     == Advance(st.rng)
    IN  IF RandomOf(s1) > tier[2] THEN [st EXCEPT !.rng = s1]
        ELSE LET s2 == Advance(s1)
                 num_npcs == RandIntOf(s2, 1, tier[1])
                 r == PlaceNpcs([st EXCEPT !.rng = s2],
                                [placed |-> {}, npcs |-> <<>>],
                                building_type, box, key, num_npcs)
             IN  IF r.st.exc # None THEN r.st
                 ELSE create_building_relationships(r.st, r.loc.npcs)


\* ------------------------------------------------------------ polygon fill

\* x < (xj - xi) * (y - yi) / (yj - yi) + xi, the quotient taken exactly;
\* yj # yi wherever the edge straddles the scanline.
LeftOfEdgeClosed(x, y, xi, yi, xj, yj) ==
    IF yj - yi > 0
    THEN (x - xi) * (yj - yi) <= (xj - xi) * (y - yi)
    ELSE (x - xi) * (yj - yi) >= (xj - xi) * (y - yi)

LeftOfEdge(x, y, xi, yi, xj, yj) ==
    IF yj - yi > 0
    THEN (x - xi) * (yj - yi) < (xj - xi) * (y - yi)
    ELSE (x - xi) * (yj - yi) > (xj - xi) * (y - yi)

\* the test of one loop iteration: edge (polygon[j], polygon[i]) toggles
EdgeToggles(x, y, pi, pj) ==
    /\ (pi[2] > y) # (pj[2] > y)
    /\ LeftOfEdge(x, y, pi[1], pi[2], pj[1], pj[2])

\* the loop of _point_in_polygon from index i on (1-based), j the previous
\* index and ins the value of inside so far
RECURSIVE PipLoop(_, _, _, _, _, _)
PipLoop(x, y, poly, i, j, ins) ==
    IF i > Len(poly) THEN ins
    ELSE PipLoop(x, y, poly, i + 1, i,
                 IF EdgeToggles(x, y, poly[i], poly[j]) THEN ~ins ELSE ins)

point_in_polygon(x, y, poly) ==
    IF Len(poly) = 0 THEN FALSE
    ELSE PipLoop(x, y, poly, 1, Len(poly), FALSE)

\* ------------------------------------------------------ building planner

\* TERRAIN_SHAPES["floor"]
FloorShapes == <<189, 193, 367, 368, 369, 370, 441>>

\* The entries of OBJECT_SHAPES that buildings, point features, areas and
\* barriers use.
OBJECT_SHAPES ==
    [tree |-> <<181, 310, 332, 453>>,
     brambles |-> <<320>>,
     well |-> <<470>>,
     waves |-> <<384>>,
     fence |-> <<378, 420, 421, 422>>,
     wall |-> <<151, 152, 205, 206, 218, 219, 220, 221, 253, 266, 273, 308, 344,
                345, 346, 348, 349, 350, 351, 355, 357, 358, 359, 362, 365, 366,
                371, 374, 393, 425>>,
     door |-> <<270, 376, 432, 433>>,
     roof_slate |-> <<164, 165, 166, 167, 169>>,
     roof_wood |-> <<170, 171, 172, 173, 174, 175, 176>>,
     fortress |-> <<191, 192, 260, 263, 352>>,
     portcullis |-> <<271, 272>>,
     table |-> <<333>>,
     bed |-> <<312, 363>>,
     chest |-> <<76>>]

\* The rows of OSM_BUILDING_TO_SHAPES for the building types processed here.
OSM_BUILDING_TO_SHAPES ==
    [house |-> [walls |-> "wall", roof |-> "roof_slate", door |-> "door"],
     residential |-> [walls |-> "wall", roof |-> "roof_slate", door |-> "door"],
     shop |-> [walls |-> "wall", roof |-> "roof_wood", door |-> "door"],
     castle |-> [walls |-> "fortress", roof |-> "roof_slate", door |-> "portcullis"]]

\* get_object_shapes({"building": building}): component -> shape list; an
\* unlisted building value takes the "house" row.
get_object_shapes(building_tag) ==
    LET building_type == IF building_tag \in DOMAIN OSM_BUILDING_TO_SHAPES
                         THEN building_tag ELSE "house"
        building_def == OSM_BUILDING_TO_SHAPES[building_type]
    IN  [component \in DOMAIN building_def |-> OBJECT_SHAPES[building_def[component]]]

\* The loops below stop as soon as an exception is pending in the session.

\* self.ultima_map.set_terrain(x, y, random.choice(shapes))
PaintTile(st, shapes, x, y) ==
    LET s == Advance(st.rng)
    IN  [st EXCEPT !.rng = s, !.grid = set_terrain(@, x, y, ChoiceOf(s, shapes))]

\* self.ultima_map.add_object(UltimaObject(shape=random.choice(shapes), x, y, lift))
EmitObject(st, shapes, x, y, lift) ==
    LET s == Advance(st.rng)
    IN  [st EXCEPT !.rng = s,
                   !.grid = add_object(@, UltimaObject(ChoiceOf(s, shapes), 0, x, y,
                                                       lift, 0))]

\* number of tiles of a box, and its k-th tile (k from 0) in the order of
\* for x in range(min_x, max_x + 1): for y in range(min_y, max_y + 1)
BoxTiles(box) == (box[3] - box[1] + 1) * (box[4] - box[2] + 1)
BoxTile(box, k) ==
    <<box[1] + (k \div (box[4] - box[2] + 1)), box[2] + (k % (box[4] - box[2] + 1))>>

\* iterations lo .. hi - 1 of the floor loops, in order (first half, then
\* second half)
RECURSIVE FloorLoop(_, _, _, _, _)
FloorLoop(st, shapes, box, lo, hi) ==
    IF st.exc # None \/ lo >= hi THEN st
    ELSE IF hi - lo = 1
    THEN PaintTile(st, shapes, BoxTile(box, lo)[1], BoxTile(box, lo)[2])
    ELSE FloorLoop(FloorLoop(st, shapes, box, lo, (lo + hi) \div 2),
                   shapes, box, (lo + hi) \div 2, hi)

\* for x in range(min_x, max_x + 1): top wall, then bottom wall
RECURSIVE WallRowLoop(_, _, _, _)
WallRowLoop(st, shapes, box, x) ==
    IF st.exc # None \/ x > box[3] THEN st
    ELSE WallRowLoop(EmitObject(EmitObject(st, shapes, x, box[2], 0),
                                shapes, x, box[4], 0),
                     shapes, box, x + 1)

RECURSIVE WallSideThroughCorners(_, _, _, _)
WallSideThroughCorners(st, shapes, box, y) ==
    IF st.exc # None \/ y > box[4] THEN st
    ELSE WallSideThroughCorners(EmitObject(EmitObject(st, shapes, box[1], y, 0),
                                           shapes, box[3], y, 0),
                                shapes, box, y + 1)

\* for y in range(min_y + 1, max_y): left wall, then right wall
RECURSIVE WallSideLoop(_, _, _, _)
WallSideLoop(st, shapes, box, y) ==
    IF st.exc # None \/ y >= box[4] THEN st
    ELSE WallSideLoop(EmitObject(EmitObject(st, shapes, box[1], y, 0),
                                 shapes, box[3], y, 0),
                      shapes, box, y + 1)

RoofLift == 4

\* iterations lo .. hi - 1 of the roof loops, in order
RECURSIVE RoofLoop(_, _, _, _, _)
RoofLoop(st, shapes, box, lo, hi) ==
    IF st.exc # None \/ lo >= hi THEN st
    ELSE IF hi - lo = 1
    THEN EmitObject(st, shapes, BoxTile(box, lo)[1], BoxTile(box, lo)[2], RoofLift)
    ELSE RoofLoop(RoofLoop(st, shapes, box, lo, (lo + hi) \div 2),
                  shapes, box, (lo + hi) \div 2, hi)

RoomGrown(type, min_x, min_y, max_x, max_y) ==
    [type |-> type, min_x |-> min_x, min_y |-> min_y, max_x |-> max_x,
     max_y |-> max_y + 1]

\* the room dict appended by _plan_rooms
Room(type, min_x, min_y, max_x, max_y) ==
    [type |-> type, min_x |-> min_x, min_y |-> min_y, max_x |-> max_x, max_y |-> max_y]

RECURSIVE InteriorWallNoDoorway(_, _, _, _, _)
InteriorWallNoDoorway(st, min_x, max_x, mid_y, x) ==
    IF st.exc # None \/ x > max_x THEN st
    ELSE InteriorWallNoDoorway(EmitObject(st, OBJECT_SHAPES["wall"], x, mid_y, 0),
                               min_x, max_x, mid_y, x + 1)

\* the interior wall of the house / residential split: every x of the row
\* mid_y except the doorway (min_x + max_x) // 2
RECURSIVE InteriorWallLoop(_, _, _, _, _)
InteriorWallLoop(st, min_x, max_x, mid_y, x) ==
    IF st.exc # None \/ x > max_x THEN st
    ELSE IF x # (min_x + max_x) \div 2
    THEN InteriorWallLoop(EmitObject(st, OBJECT_SHAPES["wall"], x, mid_y, 0),
                          min_x, max_x, mid_y, x + 1)
    ELSE InteriorWallLoop(st, min_x, max_x, mid_y, x + 1)

MinRoomSplit == 6

\* _plan_rooms(building_type, min_x, min_y, max_x, max_y): the rooms, and the
\* session after the interior wall objects the plan itself places
plan_rooms(st, building_type, box) ==
    LET min_x == box[1]
        min_y == box[2]
        max_x == box[3]
        max_y == box[4]
        width == max_x - min_x
        height == max_y - min_y
        whole == <<Room("main", min_x, min_y, max_x, max_y)>>
    IN  IF width < MinRoomSplit \/ height < MinRoomSplit
        THEN [st |-> st, rooms |-> whole]
        ELSE IF building_type \in {"house", "residential"}
        THEN LET mid_y == min_y + height \div 2
             IN  [st |-> InteriorWallLoop(st, min_x, max_x, mid_y, min_x),
                  rooms |-> <<Room("living", min_x, min_y, max_x, mid_y),
                              Room("bedroom", min_x, mid_y + 1, max_x, max_y)>>]
        ELSE IF building_type \in {"shop", "retail", "commercial"}
        THEN LET mid_y == min_y + (height * 2) \div 3
             IN  [st |-> st,
                  rooms |-> <<Room("showroom", min_x, min_y, max_x, mid_y),
                              Room("storage", min_x, mid_y + 1, max_x, max_y)>>]
        ELSE IF building_type = "tavern"
        THEN LET mid_x == min_x + (width * 2) \div 3
                 mid_y == min_y + height \div 2
             IN  [st |-> st,
                  rooms |-> <<Room("main", min_x, min_y, mid_x, max_y),
                              Room("kitchen", mid_x + 1, min_y, max_x, mid_y),
                              Room("bedroom", mid_x + 1, mid_y + 1, max_x, max_y)>>]
        ELSE IF building_type \in {"castle", "government"}
        THEN LET mid_x == min_x + width \div 2
             IN  [st |-> st,
                  rooms |-> <<Room(IF building_type = "castle" THEN "throne" ELSE "hall",
                                   min_x, min_y, mid_x, max_y),
                              Room(IF building_type = "castle" THEN "hall" ELSE "office",
                                   mid_x + 1, min_y, max_x, max_y)>>]
        ELSE [st |-> st, rooms |-> whole]

\* get_furniture_for_room(building_type, room_type): the furniture names of a
\* room, by room type.
FurnitureFor(building_type, room_type) ==
    CASE room_type = "bedroom" -> <<"bed", "chest">>
      [] room_type \in {"living", "main"} -> <<"table", "chest">>
      [] room_type \in {"showroom", "storage"} -> <<"chest">>
      [] OTHER -> <<>>

\* get_furniture_shapes(furniture_name): the shape list of the name.
FurnitureShapes(furniture_name) == OBJECT_SHAPES[furniture_name]

RECURSIVE TryPlaceFurnitureStacked(_, _, _, _, _)
TryPlaceFurnitureStacked(st, placed, shapes, room, attempts) ==
    IF st.exc # None \/ attempts >= MaxAttempts
    THEN [st |-> st, placed |-> placed, attempts |-> attempts, at |-> <<>>]
    ELSE LET sx == Advance(st.rng)
             sy == Advance(sx)
             x  == RandIntOf(sx, room.min_x, room.max_x)
             y  == RandIntOf(sy, room.min_y, room.max_y)
         IN  [st |-> EmitObject([st EXCEPT !.rng = sy], shapes, x, y, 0),
              placed |-> placed \cup {<<x, y>>},
              attempts |-> attempts, at |-> <<x, y>>]

\* The while loop of _furnish_room for one item: up to 10 attempts inside the
\* room; placed is the local placed_positions. attempts is the number of
\* attempts that collided, at the tile the item was put on (<<>> if none).
RECURSIVE TryPlaceFurniture(_, _, _, _, _)
TryPlaceFurniture(st, placed, shapes, room, attempts) ==
    IF st.exc # None \/ attempts >= MaxAttempts
    THEN [st |-> st, placed |-> placed, attempts |-> attempts, at |-> <<>>]
    ELSE LET sx == Advance(st.rng)
             sy == Advance(sx)
             x  == RandIntOf(sx, room.min_x, room.max_x)
             y  == RandIntOf(sy, room.min_y, room.max_y)
         IN  IF <<x, y>> \notin placed
             THEN [st |-> EmitObject([st EXCEPT !.rng = sy], shapes, x, y, 0),
                   placed |-> placed \cup {<<x, y>>},
                   attempts |-> attempts, at |-> <<x, y>>]
             ELSE TryPlaceFurniture([st EXCEPT !.rng = sy], placed, shapes, room,
                                    attempts + 1)

\* for furniture_name in furniture_list, from the i-th name on; log collects
\* the outcome of each item looked for
RECURSIVE FurnishLoop(_, _, _, _, _, _)
FurnishLoop(st, placed, furniture_list, room, i, log) ==
    IF st.exc # None \/ i > Len(furniture_list) THEN [st |-> st, log |-> log]
    ELSE IF FurnitureShapes(furniture_list[i]) = <<>>
    THEN FurnishLoop(st, placed, furniture_list, room, i + 1, log)
    ELSE LET r == TryPlaceFurniture(st, placed, FurnitureShapes(furniture_list[i]),
                                    room, 0)
         IN  FurnishLoop(r.st, r.placed, furniture_list, room, i + 1,
                         Append(log, [name |-> furniture_list[i],
                                      attempts |-> r.attempts, at |-> r.at]))

\* _furnish_room(building_type, room), with the outcomes of its items
furnish_room_traced(st, building_type, room) ==
    LET furniture_list == FurnitureFor(building_type, room.type)
    IN  IF furniture_list = <<>> THEN [st |-> st, log |-> <<>>]
        ELSE FurnishLoop(st, {}, furniture_list, room, 1, <<>>)

\* _furnish_room(building_type, room)
furnish_room(st, building_type, room) == furnish_room_traced(st, building_type, room).st

\* for room in rooms: self._furnish_room(building_type, room), from the i-th
\* room on; logs collects the outcomes room by room
RECURSIVE FurnishRooms(_, _, _, _, _)
FurnishRooms(st, building_type, rooms, i, logs) ==
    IF st.exc # None \/ i > Len(rooms) THEN [st |-> st, logs |-> logs]
    ELSE LET r == furnish_room_traced(st, building_type, rooms[i])
         IN  FurnishRooms(r.st, building_type, rooms, i + 1, Append(logs, r.log))

\* _generate_interior(building_type, min_x, min_y, max_x, max_y), with the
\* rooms planned and the outcomes of their furniture
generate_interior_traced(st, building_type, box) ==
    IF box[3] - box[1] < 2 \/ box[4] - box[2] < 2
    THEN [st |-> st, rooms |-> <<>>, logs |-> <<>>]
    ELSE LET plan == plan_rooms(st, building_type, box)
             r == FurnishRooms(plan.st, building_type, plan.rooms, 1, <<>>)
         IN  [st |-> r.st, rooms |-> plan.rooms, logs |-> r.logs]

\* _generate_interior(building_type, min_x, min_y, max_x, max_y)
generate_interior(st, building_type, box) ==
    generate_interior_traced(st, building_type, box).st

\* the tile-space bounding box <<min_x, min_y, max_x, max_y>> of the
\* transformed vertices
FootprintBox(st, coords) ==
    LET tiles == [i \in 1..Len(coords) |->
                     osm_to_ultima(st.bbox, st.map_size, coords[i][1], coords[i][2])]
        xs == {tiles[i][1] : i \in 1..Len(coords)}
        ys == {tiles[i][2] : i \in 1..Len(coords)}
    IN  <<CHOOSE m \in xs : \A v \in xs : m <= v,
          CHOOSE m \in ys : \A v \in ys : m <= v,
          CHOOSE m \in xs : \A v \in xs : m >= v,
          CHOOSE m \in ys : \A v \in ys : m >= v>>

MinInterior == 4

\* the part of _process_building that raises the shell over the footprint
\* box: floor terrain, perimeter walls, the door, the roof
building_shell(st, shapes, box) ==
    LET floored == FloorLoop(st, FloorShapes, box, 0, BoxTiles(box))
        walled == WallSideLoop(WallRowLoop(floored, shapes.walls, box, box[1]),
                               shapes.walls, box, box[2] + 1)
        doored == EmitObject(walled, shapes.door, (box[1] + box[3]) \div 2,
                             box[4], 0)
    IN  RoofLoop(doored, shapes.roof, box, 0, BoxTiles(box))

\* _process_building(tags, coords) with tags = {"building": building_tag}
process_building(st, building_tag, coords) ==
    IF Len(coords) < 3 THEN st
    ELSE LET box    == FootprintBox(st, coords)
             width  == Max(1, box[3] - box[1])
             height == Max(1, box[4] - box[2])
             shapes == get_object_shapes(building_tag)
             inner  == <<box[1] + 1, box[2] + 1, box[3] - 1, box[4] - 1>>
             roofed == building_shell(st, shapes, box)
             furnished == IF width >= MinInterior /\ height >= MinInterior
                          THEN generate_interior(roofed, building_tag, inner)
                          ELSE roofed
         IN  place_building_npcs(furnished, building_tag, inner, st.hash_key)

\* ------------------------------------------------------------ rasterizer

\* The entries of TERRAIN_SHAPES that roads, areas and waterways use.
TERRAIN_SHAPES ==
    [grass |-> <<4, 31, 32, 33, 34, 35, 36, 37, 38, 39, 40, 41, 42, 43, 44, 45,
                 146, 147, 148>>,
     sand |-> <<10, 111>>, water |-> <<8>>,
     cobblestone |-> <<24>>, dirt |-> <<23>>, sidewalk |-> <<1>>,
     rut |-> <<16, 25>>, stone_floor |-> <<21>>, planking |-> <<17>>]

\* OSM_HIGHWAY_TO_TERRAIN.get(highway_type, "cobblestone")
HighwayTerrain(highway_type) ==
    CASE highway_type \in {"motorway", "trunk", "primary", "secondary", "tertiary",
                           "residential", "pedestrian"} -> "cobblestone"
      [] highway_type \in {"service", "path", "cycleway", "bridleway"} -> "dirt"
      [] highway_type = "track" -> "rut"
      [] highway_type = "footway" -> "sidewalk"
      [] highway_type = "steps" -> "stone_floor"
      [] OTHER -> "cobblestone"

\* self.HIGHWAY_WIDTHS.get(highway_type, 2)
HIGHWAY_WIDTHS(highway_type) ==
    CASE highway_type \in {"motorway", "trunk"} -> 4
      [] highway_type \in {"primary", "secondary"} -> 3
      [] highway_type \in {"tertiary", "residential", "pedestrian"} -> 2
      [] highway_type \in {"service", "track", "path", "footway", "cycleway",
                           "bridleway", "steps"} -> 1
      [] OTHER -> 2

Abs(v) == IF v < 0 THEN 0 - v ELSE v

\* dist = max(dx, dy) of two tiles
TileDist(a, b) == Max(Abs(b[1] - a[1]), Abs(b[2] - a[2]))

\* (int(sx + t * (ex - sx)), int(sy + t * (ey - sy))) for t = i / dist, the
\* products taken exactly (they agree with the float results for dist < 22)
LineCentre(a, b, dist, i) ==
    <<IntTrunc(a[1] * dist + i * (b[1] - a[1]), dist),
      IntTrunc(a[2] * dist + i * (b[2] - a[2]), dist)>>

\* the first value of range(-width // 2, width // 2 + 1): -width // 2 is
\* (-width) // 2, the floor of -width / 2
OffsetLow(width) == (0 - width) \div 2

\* the last value of range(-width // 2, width // 2 + 1)
OffsetHigh(width) == width \div 2

\* number of values of the range
OffsetCount(width) == OffsetHigh(width) - OffsetLow(width) + 1

\* The k-th tile (k from 0) visited by
\*   for i in range(dist + 1): for wx in range(...): for wy in range(...)
LineTile(a, b, dist, width, k) ==
    LET n  == OffsetCount(width)
        c  == LineCentre(a, b, dist, k \div (n * n))
        wx == OffsetLow(width) + ((k % (n * n)) \div n)
        wy == OffsetLow(width) + (k % n)
    IN  <<c[1] + wx, c[2] + wy>>

Anywhere(st, t) == TRUE

\* 0 <= tx < self.map_size[0] * 16 and 0 <= ty < self.map_size[1] * 16
InWorld(st, t) ==
    /\ 0 <= t[1] /\ t[1] < st.map_size[1] * TilesPerChunk
    /\ 0 <= t[2] /\ t[2] < st.map_size[2] * TilesPerChunk

\* visits lo .. hi - 1 of the painting loops, in order (first half, then
\* second half)
RECURSIVE LineLoop(_, _, _, _, _, _, _, _)
LineLoop(st, a, b, dist, shapes, width, lo, hi) ==
    IF st.exc # None \/ lo >= hi THEN st
    ELSE IF hi - lo = 1
    THEN LET t == LineTile(a, b, dist, width, lo)
         IN  IF InWorld(st, t) THEN PaintTile(st, shapes, t[1], t[2]) ELSE st
    ELSE LineLoop(LineLoop(st, a, b, dist, shapes, width, lo, (lo + hi) \div 2),
                  a, b, dist, shapes, width, (lo + hi) \div 2, hi)

\* _draw_line_terrain(start, end, shapes, width)
draw_line_terrain(st, start, end, shapes, width) ==
    LET a == osm_to_ultima(st.bbox, st.map_size, start[1], start[2])
        b == osm_to_ultima(st.bbox, st.map_size, end[1], end[2])
        dist == TileDist(a, b)
        n == OffsetCount(width)
    IN  IF dist = 0 THEN PaintTile(st, shapes, a[1], a[2])
        ELSE LineLoop(st, a, b, dist, shapes, width, 0, (dist + 1) * n * n)

\* OBJECT_SHAPES.get("bridge", [212, 213, 214, 215])
BridgeShapes == <<212, 213, 214, 215>>

\* iterations lo .. hi - 1 of the loop over i of _draw_bridge: the planking
\* square of centre i, then a bridge object on the first and last centre
RECURSIVE BridgeLoop(_, _, _, _, _, _, _)
BridgeLoop(st, a, b, dist, width, lo, hi) ==
    IF st.exc # None \/ lo >= hi THEN st
    ELSE IF hi - lo = 1
    THEN LET n == OffsetCount(width)
             planked == LineLoop(st, a, b, dist, TERRAIN_SHAPES["planking"], width,
                                 lo * n * n, (lo + 1) * n * n)
             c == LineCentre(a, b, dist, lo)
         IN  IF lo = 0 \/ lo = dist
             THEN EmitObject(planked, BridgeShapes, c[1], c[2], 0)
             ELSE planked
    ELSE BridgeLoop(BridgeLoop(st, a, b, dist, width, lo, (lo + hi) \div 2),
                    a, b, dist, width, (lo + hi) \div 2, hi)

\* _draw_bridge(start, end, width)
draw_bridge(st, start, end, width) ==
    LET a == osm_to_ultima(st.bbox, st.map_size, start[1], start[2])
        b == osm_to_ultima(st.bbox, st.map_size, end[1], end[2])
        dist == TileDist(a, b)
    IN  IF dist = 0 THEN st ELSE BridgeLoop(st, a, b, dist, width, 0, dist + 1)

Intersection == "intersection"

\* one visit of the registry loop: a registered tile becomes "intersection",
\* an unregistered one gets the highway type
TouchRoadTile(road_tiles, t, highway_type) ==
    DictSet(road_tiles, t,
            IF t \in DOMAIN road_tiles THEN Intersection ELSE highway_type)

\* visits lo .. hi - 1 of the loops of _track_road_segment, in order
RECURSIVE TrackLoop(_, _, _, _, _, _, _, _)
TrackLoop(st, a, b, dist, highway_type, width, lo, hi) ==
    IF st.exc # None \/ lo >= hi THEN st
    ELSE IF hi - lo = 1
    THEN [st EXCEPT !.road_tiles =
             TouchRoadTile(@, LineTile(a, b, dist, width, lo), highway_type)]
    ELSE TrackLoop(TrackLoop(st, a, b, dist, highway_type, width, lo,
                             (lo + hi) \div 2),
                   a, b, dist, highway_type, width, (lo + hi) \div 2, hi)

\* _track_road_segment(start, end, highway_type, width)
track_road_segment(st, start, end, highway_type, width) ==
    LET a == osm_to_ultima(st.bbox, st.map_size, start[1], start[2])
        b == osm_to_ultima(st.bbox, st.map_size, end[1], end[2])
        dist == TileDist(a, b)
        n == OffsetCount(width)
    IN  IF dist = 0
        THEN [st EXCEPT !.road_tiles = DictSet(@, a, highway_type)]
        ELSE TrackLoop(st, a, b, dist, highway_type, width, 0, (dist + 1) * n * n)

\* for i in range(len(coords) - 1): draw the segment, then track it
RECURSIVE SegmentLoop(_, _, _, _)
SegmentLoop(st, tags, coords, i) ==
    IF st.exc # None \/ i >= Len(coords) THEN st
    ELSE LET width == HIGHWAY_WIDTHS(tags.highway)
             drawn == IF tags.bridge
                      THEN draw_bridge(st, coords[i], coords[i + 1], width)
                      ELSE draw_line_terrain(st, coords[i], coords[i + 1],
                                             TERRAIN_SHAPES[HighwayTerrain(tags.highway)],
                                             width)
         IN  SegmentLoop(track_road_segment(drawn, coords[i], coords[i + 1],
                                            tags.highway, width),
                         tags, coords, i + 1)

\* _process_highway(tags, coords); tags.bridge is tags.get("bridge") == "yes"
process_highway(st, tags, coords) == SegmentLoop(st, tags, coords, 1)

\* --------------------------------------------------------- OSM elements

\* key in tags
HasTag(tags, key) == key \in DOMAIN tags

\* the tags of the elements below: a record of the keys present
NoTags == [key \in {} |-> ""]

\* The rows of OSM_LANDUSE_TO_TERRAIN, OSM_NATURAL_TO_TERRAIN and
\* OSM_WATERWAY_TO_TERRAIN for the tag values processed here.
OSM_LANDUSE_TO_TERRAIN ==
    [forest |-> "grass", grass |-> "grass", meadow |-> "grass",
     residential |-> "grass", commercial |-> "cobblestone", beach |-> "sand"]

OSM_NATURAL_TO_TERRAIN ==
    [water |-> "water", beach |-> "sand", sand |-> "sand",
     grassland |-> "grass", scrub |-> "grass", wood |-> "grass"]

OSM_WATERWAY_TO_TERRAIN == [river |-> "water", stream |-> "water"]

\* get_terrain_shape(osm_tags) for the tags of an area way, which carry no
\* surface and no highway key: landuse first, then natural, then waterway,
\* and grass when no table has the value
get_terrain_shape(tags) ==
    IF HasTag(tags, "landuse") /\ tags.landuse \in DOMAIN OSM_LANDUSE_TO_TERRAIN
    THEN TERRAIN_SHAPES[OSM_LANDUSE_TO_TERRAIN[tags.landuse]]
    ELSE IF HasTag(tags, "natural") /\ tags.natural \in DOMAIN OSM_NATURAL_TO_TERRAIN
    THEN TERRAIN_SHAPES[OSM_NATURAL_TO_TERRAIN[tags.natural]]
    ELSE IF HasTag(tags, "waterway") /\ tags.waterway \in DOMAIN OSM_WATERWAY_TO_TERRAIN
    THEN TERRAIN_SHAPES[OSM_WATERWAY_TO_TERRAIN[tags.waterway]]
    ELSE TERRAIN_SHAPES["grass"]

\* The rows of OSM_AMENITY_TO_SHAPE, OSM_NATURAL_TO_SHAPE and
\* OSM_BARRIER_TO_SHAPE for the tag values processed here.
OSM_AMENITY_TO_SHAPE == [fountain |-> "well", drinking_water |-> "well"]

OSM_NATURAL_TO_SHAPE ==
    [tree |-> "tree", wood |-> "tree", scrub |-> "brambles", water |-> "waves"]

OSM_BARRIER_TO_SHAPE == [fence |-> "fence", wall |-> "wall", hedge |-> "brambles"]

\* get_object_shapes(osm_tags).get("main", []): a building tag yields the
\* building's components and no "main"; then the first of amenity, natural
\* and barrier whose value is in its table decides (no tags here carry the
\* man_made key, which is looked up last)
main_object_shapes(tags) ==
    IF HasTag(tags, "building") THEN <<>>
    ELSE IF HasTag(tags, "amenity") /\ tags.amenity \in DOMAIN OSM_AMENITY_TO_SHAPE
    THEN OBJECT_SHAPES[OSM_AMENITY_TO_SHAPE[tags.amenity]]
    ELSE IF HasTag(tags, "natural") /\ tags.natural \in DOMAIN OSM_NATURAL_TO_SHAPE
    THEN OBJECT_SHAPES[OSM_NATURAL_TO_SHAPE[tags.natural]]
    ELSE IF HasTag(tags, "barrier") /\ tags.barrier \in DOMAIN OSM_BARRIER_TO_SHAPE
    THEN OBJECT_SHAPES[OSM_BARRIER_TO_SHAPE[tags.barrier]]
    ELSE <<>>

\* _process_node(node)
process_node(st, node) ==
    LET t == osm_to_ultima(st.bbox, st.map_size, node.lon, node.lat)
        main_shapes == main_object_shapes(node.tags)
    IN  IF main_shapes # <<>> THEN EmitObject(st, main_shapes, t[1], t[2], 0)
        ELSE st

\* the k-th tile (k from 0) of
\*   for y in range(min_y, max_y + 1): for x in range(min_x, max_x + 1)
ScanTile(box, k) ==
    <<box[1] + (k % (box[3] - box[1] + 1)), box[2] + (k \div (box[3] - box[1] + 1))>>

\* iterations lo .. hi - 1 of the scanline loops of _fill_polygon_terrain
RECURSIVE ScanLoop(_, _, _, _, _, _)
ScanLoop(st, shapes, poly, box, lo, hi) ==
    IF st.exc # None \/ lo >= hi THEN st
    ELSE IF hi - lo = 1
    THEN LET t == ScanTile(box, lo)
         IN  IF point_in_polygon(t[1], t[2], poly)
             THEN PaintTile(st, shapes, t[1], t[2])
             ELSE st
    ELSE ScanLoop(ScanLoop(st, shapes, poly, box, lo, (lo + hi) \div 2),
                  shapes, poly, box, (lo + hi) \div 2, hi)

\* _fill_polygon_terrain(coords, shapes)
fill_polygon_terrain(st, coords, shapes) ==
    IF Len(coords) = 0 THEN st
    ELSE LET tile_coords == [i \in 1..Len(coords) |->
                                osm_to_ultima(st.bbox, st.map_size,
                                              coords[i][1], coords[i][2])]
             box == FootprintBox(st, coords)
         IN  ScanLoop(st, shapes, tile_coords, box, 0, BoxTiles(box))

\* for i in range(len(coords) - 1): self._draw_line_terrain(coords[i],
\* coords[i + 1], shapes, width)
RECURSIVE PolylineLoop(_, _, _, _, _)
PolylineLoop(st, coords, shapes, width, i) ==
    IF st.exc # None \/ i >= Len(coords) THEN st
    ELSE PolylineLoop(draw_line_terrain(st, coords[i], coords[i + 1], shapes, width),
                      coords, shapes, width, i + 1)

\* for coord in coords[::3]: an object on the tile of every third coordinate
RECURSIVE ScatterLoop(_, _, _, _)
ScatterLoop(st, coords, shapes, i) ==
    IF st.exc # None \/ i > Len(coords) THEN st
    ELSE LET t == osm_to_ultima(st.bbox, st.map_size, coords[i][1], coords[i][2])
         IN  ScatterLoop(EmitObject(st, shapes, t[1], t[2], 0), coords, shapes, i + 3)

\* _process_area(tags, coords, is_polygon)
process_area(st, tags, coords, is_polygon) ==
    LET terrain_shapes == get_terrain_shape(tags)
        covered == IF is_polygon /\ Len(coords) >= 3
                   THEN fill_polygon_terrain(st, coords, terrain_shapes)
                   ELSE PolylineLoop(st, coords, terrain_shapes, 1, 1)
        main_shapes == main_object_shapes(tags)
    IN  IF main_shapes # <<>> THEN ScatterLoop(covered, coords, main_shapes, 1)
        ELSE covered

WaterwayWidth == 3

\* _process_waterway(tags, coords)
process_waterway(st, tags, coords) ==
    PolylineLoop(st, coords, TERRAIN_SHAPES["water"], WaterwayWidth, 1)

\* for j in range(dist + 1): a barrier object on every interpolated tile
RECURSIVE BarrierPoints(_, _, _, _, _, _)
BarrierPoints(st, shapes, a, b, dist, j) ==
    IF st.exc # None \/ j > dist THEN st
    ELSE LET c == LineCentre(a, b, dist, j)
         IN  BarrierPoints(EmitObject(st, shapes, c[1], c[2], 0), shapes, a, b,
                           dist, j + 1)

\* for i in range(len(coords) - 1): the objects of one segment; a segment
\* whose ends share a tile places nothing
RECURSIVE BarrierLoop(_, _, _, _)
BarrierLoop(st, shapes, coords, i) ==
    IF st.exc # None \/ i >= Len(coords) THEN st
    ELSE LET a == osm_to_ultima(st.bbox, st.map_size, coords[i][1], coords[i][2])
             b == osm_to_ultima(st.bbox, st.map_size, coords[i + 1][1],
                                coords[i + 1][2])
             dist == TileDist(a, b)
         IN  BarrierLoop(IF dist = 0 THEN st
                         ELSE BarrierPoints(st, shapes, a, b, dist, 0),
                         shapes, coords, i + 1)

\* _process_barrier(tags, coords)
process_barrier(st, tags, coords) ==
    LET main_shapes == main_object_shapes(tags)
    IN  IF main_shapes # <<>> THEN BarrierLoop(st, main_shapes, coords, 1) ELSE st

\* the first pass of process_osm_data from element i on:
\* self.nodes[element["id"]] = (element["lon"], element["lat"]) per node
RECURSIVE CacheLoop(_, _, _)
CacheLoop(nodes, elements, i) ==
    IF i > Len(elements) THEN nodes
    ELSE CacheLoop(IF elements[i].type = "node"
                   THEN DictSet(nodes, elements[i].id,
                                <<elements[i].lon, elements[i].lat>>)
                   ELSE nodes,
                   elements, i + 1)

\* the first pass of process_osm_data
cache_nodes(st, elements) ==
    [st EXCEPT !.nodes = CacheLoop(@, elements, 1)]

RECURSIVE WayCoordsUntilGap(_, _, _)
WayCoordsUntilGap(nodes, ids, i) ==
    IF i > Len(ids) \/ ids[i] \notin DOMAIN nodes THEN <<>>
    ELSE <<nodes[ids[i]]>> \o WayCoordsUntilGap(nodes, ids, i + 1)

\* coords of _process_way from the i-th node id on: the cached position of
\* every id that is in self.nodes, in the order of the way's list
RECURSIVE WayCoords(_, _, _)
WayCoords(nodes, ids, i) ==
    IF i > Len(ids) THEN <<>>
    ELSE IF ids[i] \in DOMAIN nodes
    THEN <<nodes[ids[i]]>> \o WayCoords(nodes, ids, i + 1)
    ELSE WayCoords(nodes, ids, i + 1)

\* the handler _process_way picks by the way's tags
way_handler(st, tags, coords, is_polygon) ==
    IF HasTag(tags, "highway") THEN process_highway(st, tags, coords)
    ELSE IF HasTag(tags, "building") THEN process_building(st, tags.building, coords)
    ELSE IF HasTag(tags, "landuse") \/ HasTag(tags, "natural")
    THEN process_area(st, tags, coords, is_polygon)
    ELSE IF HasTag(tags, "waterway") THEN process_waterway(st, tags, coords)
    ELSE IF HasTag(tags, "barrier") THEN process_barrier(st, tags, coords)
    ELSE st

\* _process_way(way); a way without "tags" or "nodes" reads them as empty
process_way(st, way) ==
    LET tags == IF "tags" \in DOMAIN way THEN way.tags ELSE NoTags
        nodes == IF "nodes" \in DOMAIN way THEN way.nodes ELSE <<>>
        coords == WayCoords(st.nodes, nodes, 1)
        is_polygon == Len(nodes) > 2 /\ nodes[1] = nodes[Len(nodes)]
    IN  IF nodes = <<>> THEN st
        ELSE IF coords = <<>> THEN st
        ELSE way_handler(st, tags, coords, is_polygon)

\* one iteration of the second pass of process_osm_data
process_element(st, element) ==
    IF element.type = "way" THEN process_way(st, element)
    ELSE IF element.type = "node" /\ "tags" \in DOMAIN element
    THEN process_node(st, element)
    ELSE st

\* the cell (chunk key, ly, lx) visited k-th (k from 0) by
\*   for cy: for cx: for ly in range(16): for lx in range(16)
FillCell(ms, k) ==
    LET per == TilesPerChunk * TilesPerChunk
        c == k \div per
    IN  [key |-> <<c % ms[1], c \div ms[1]>>,
         ly |-> (k % per) \div TilesPerChunk,
         lx |-> k % TilesPerChunk]

\* one cell of _fill_default_terrain: get_chunk, then a grass shape drawn
\* for a cell that holds 4
FillOneCell(st, cell) ==
    LET g == get_chunk(st.grid, cell.key[1], cell.key[2])
        s == Advance(st.rng)
    IN  IF g.chunks[cell.key].terrain[cell.ly][cell.lx] = DefaultTerrain
        THEN [st EXCEPT !.rng = s,
                        !.grid = WriteCell(g, cell.key, cell.ly, cell.lx,
                                           ChoiceOf(s, TERRAIN_SHAPES["grass"]))]
        ELSE [st EXCEPT !.grid = g]

\* cells lo .. hi - 1 of the loops, in order
RECURSIVE FillCells(_, _, _)
FillCells(st, lo, hi) ==
    IF st.exc # None \/ lo >= hi THEN st
    ELSE IF hi - lo = 1 THEN FillOneCell(st, FillCell(st.map_size, lo))
    ELSE FillCells(FillCells(st, lo, (lo + hi) \div 2), (lo + hi) \div 2, hi)

\* _fill_default_terrain()
fill_default_terrain(st) ==
    FillCells(st, 0, st.map_size[1] * st.map_size[2] * TilesPerChunk * TilesPerChunk)


\* ------------------------------------------------------------- inputs

\* Chunk coordinates handed to get_chunk.
ChunkKeys == {<<0, 0>>, <<1, 2>>}
\* Tiles handed to set_terrain: chunk (1,2) local (1,1); chunk (0,0); a tile
\* left of the origin (floor division and modulo put it in chunk (-1,0)).
PaintTiles == {<<17, 33>>, <<0, 0>>, <<-1, 5>>}
PaintIds == {10, 5}
\* Cells written directly through a chunk returned by get_chunk.
HandleCells == {<<0, 0>>, <<1, 1>>}
HandleIds == {99}
\* Objects handed to add_object: two in chunk (1,2), one in chunk (0,0), and
\* one each in superchunks (1,0) and (0,1).
ObjectTiles == {<<17, 33>>, <<18, 33>>, <<5, 5>>, <<300, 40>>, <<40, 300>>}
\* Shape 1 everywhere, and shape 1023 (both high bits set) at tile (17,33).
GridObjects ==
    {UltimaObject(1, 0, t[1], t[2], 0, 0) : t \in ObjectTiles}
        \cup {UltimaObject(1023, 0, 17, 33, 4, 255)}

\* Objects handed to to_ireg_bytes: shapes on both sides of the byte boundary,
\* tiles in chunks below and above 16, ground and roof lift, any quality byte.
EncodeShapes == {0, 1, 255, 256, 1023}
EncodeXs == {0, 17, 255, 273}
EncodeYs == {0, 33, 272}
EncodeLifts == {0, 4}
EncodeQualities == {0, 255}
EncodeObjects ==
    {UltimaObject(sh, 0, x, y, l, q) :
        sh \in EncodeShapes, x \in EncodeXs, y \in EncodeYs,
        l \in EncodeLifts, q \in EncodeQualities}

\* Building interiors <<building_type, <<min_x, min_y, max_x, max_y>>>>, one per
\* area tier and one in a chunk away from the origin.
Buildings ==
    {<<"house", <<1, 1, 3, 3>>>>,
     <<"residential", <<1, 1, 6, 6>>>>,
     <<"castle", <<1, 1, 8, 8>>>>,
     <<"shop", <<17, 33, 20, 36>>>>}
Seeds == 0 .. MaxSeed
HashKeys == 0 .. MaxHashKey
Runs == {1, 2}

Op(name, key, existed, arg) ==
    [op |-> name, key |-> key, existed |-> existed, arg |-> arg]

\* ------------------------------------------------------------ actions

TransformerVars == <<bbox, map_size, point, tile>>
GridVars == <<chunks, chunkOrder, handle, lastOp, painted, added>>
ExportVars == <<files, exports>>
EncodeVars == <<encIn, encOut>>
RunVars == <<seed, building, runs>>
PolygonVars == <<polygon, probe, inside>>
SessionVars == <<grng, sessions, hist>>
OsmVars == <<osm>>

\* CoordinateTransformer.osm_to_ultima(lon, lat)
Transform(lon, lat) ==
    /\ point = <<lon, lat>>
    /\ tile = None
    /\ tile' = osm_to_ultima(bbox, map_size, lon, lat)
    /\ UNCHANGED <<bbox, map_size, point, GridVars, ExportVars, EncodeVars, RunVars, PolygonVars, SessionVars, OsmVars>>

\* chunk = uma.get_chunk(cx, cy)
GetChunk(cx, cy) ==
    LET g == get_chunk(Grid, cx, cy)
    IN  /\ chunks' = g.chunks
        /\ chunkOrder' = g.order
        /\ handle' = <<cx, cy>>
        /\ lastOp' = Op("get_chunk", <<cx, cy>>, <<cx, cy>> \in DOMAIN chunks, None)
        /\ UNCHANGED <<painted, added, TransformerVars, ExportVars, EncodeVars, RunVars, PolygonVars, SessionVars, OsmVars>>

\* chunk.terrain[ly][lx] = v on the chunk object a get_chunk call returned
MutateChunk(ly, lx, v) ==
    LET t == <<handle[1] * TilesPerChunk + lx, handle[2] * TilesPerChunk + ly>>
    IN  /\ handle # None
        /\ t \in DOMAIN painted \/ Cardinality(DOMAIN painted) < MaxPaints
        /\ chunks' = WriteCell(Grid, handle, ly, lx, v).chunks
        /\ painted' = [u \in DOMAIN painted \cup {t} |->
                          IF u = t THEN v ELSE painted[u]]
        /\ lastOp' = Op("mutate", handle, TRUE, <<ly, lx, v>>)
        /\ UNCHANGED <<chunkOrder, handle, added, TransformerVars, ExportVars,
                       EncodeVars, RunVars, PolygonVars, SessionVars, OsmVars>>

\* uma.set_terrain(x, y, id)
SetTerrain(x, y, id) ==
    LET g == set_terrain(Grid, x, y, id)
    IN  /\ <<x, y>> \in DOMAIN painted \/ Cardinality(DOMAIN painted) < MaxPaints
        /\ chunks' = g.chunks
        /\ chunkOrder' = g.order
        /\ painted' = [u \in DOMAIN painted \cup {<<x, y>>} |->
                          IF u = <<x, y>> THEN id ELSE painted[u]]
        /\ lastOp' = Op("set_terrain", ChunkKey(x, y),
                        ChunkKey(x, y) \in DOMAIN chunks, <<x, y, id>>)
        /\ UNCHANGED <<handle, added, TransformerVars, ExportVars, EncodeVars, RunVars, PolygonVars, SessionVars, OsmVars>>

\* uma.add_object(obj)
AddObject(obj) ==
    LET g == add_object(Grid, obj)
    IN  /\ Len(added) < MaxObjects
        /\ chunks' = g.chunks
        /\ chunkOrder' = g.order
        /\ added' = Append(added, obj)
        /\ lastOp' = Op("add_object", ChunkKey(obj.x, obj.y),
                        ChunkKey(obj.x, obj.y) \in DOMAIN chunks, obj)
        /\ UNCHANGED <<handle, painted, TransformerVars, ExportVars, EncodeVars, RunVars, PolygonVars, SessionVars, OsmVars>>

\* The objects of the map in visitation order: chunks in dict order, then
\* insertion order within the chunk.
RECURSIVE Visited(_, _)
Visited(g, i) ==
    IF i > Len(g.order) THEN <<>>
    ELSE g.chunks[g.order[i]].objects \o Visited(g, i + 1)

\* exporter.export_ireg(output_dir)
ExportIreg ==
    LET r == export_ireg(files, Grid)
    IN  /\ Len(exports) < MaxExports
        /\ files' = r.files
        /\ exports' = Append(exports, [exc |-> r.exc, visited |-> Visited(Grid, 1)])
        /\ lastOp' = Op("export_ireg", None, FALSE, None)
        /\ UNCHANGED <<chunks, chunkOrder, handle, painted, added, TransformerVars,
                       EncodeVars, RunVars, PolygonVars, SessionVars, OsmVars>>

\* data = obj.to_ireg_bytes()
Encode(obj) ==
    /\ encIn' = <<obj>>
    /\ encOut' = <<CallToIregBytes(obj)>>
    /\ UNCHANGED <<TransformerVars, GridVars, ExportVars, RunVars, PolygonVars, SessionVars, OsmVars>>

\* A generation run r: a process started with --seed, which generates the
\* building's occupants and then exports into its own, empty output directory.

\* Process start: the interpreter draws its string-hash key; main() seeds the
\* generator and builds a MapGenerator with an empty map.
StartProcess(r, key) ==
    /\ runs[r].pc = "start"
    /\ runs' = [runs EXCEPT ![r].pc = "seeded",
                            ![r].key = key,
                            ![r].st.rng = Seeded(seed)]
    /\ UNCHANGED <<seed, building, TransformerVars, GridVars, ExportVars, EncodeVars, PolygonVars, SessionVars, OsmVars>>

\* self._place_building_npcs(building_type, min_x + 1, min_y + 1, max_x - 1, max_y - 1)
PlaceBuildingNpcs(r) ==
    /\ runs[r].pc = "seeded"
    /\ runs' = [runs EXCEPT ![r].pc = "generated",
                            ![r].st = place_building_npcs(@, building[1], building[2],
                                                          runs[r].key)]
    /\ UNCHANGED <<seed, building, TransformerVars, GridVars, ExportVars, EncodeVars, PolygonVars, SessionVars, OsmVars>>

\* exporter.export_ireg(os.path.join(output_dir, "ireg"))
ExportRun(r) ==
    LET res == export_ireg(runs[r].files, runs[r].st.grid)
    IN  /\ runs[r].pc = "generated"
        /\ runs' = [runs EXCEPT ![r].pc = "exported",
                                ![r].files = res.files,
                                ![r].exc = res.exc]
        /\ UNCHANGED <<seed, building, TransformerVars, GridVars, ExportVars, EncodeVars, PolygonVars, SessionVars, OsmVars>>

\* ------------------------------------------------------ initial states

EmptyMap == [k \in {} |-> UltimaChunk]

TransformerIdle ==
    /\ bbox = <<0, 0, 1, 1>>
    /\ map_size = <<1, 1>>
    /\ point = None
    /\ tile = None

\* UltimaMap(): no chunks
GridInit ==
    /\ chunks = EmptyMap
    /\ chunkOrder = <<>>
    /\ handle = None
    /\ lastOp = Op("init", None, FALSE, None)
    /\ painted = [t \in {} |-> 0]
    /\ added = <<>>

\* An output directory with no stream in it, and no export made.
ExportInit ==
    /\ files = [n \in {} |-> <<>>]
    /\ exports = <<>>

EncodeIdle ==
    /\ encIn = <<>>
    /\ encOut = <<>>

RunsIdle ==
    /\ seed = 0
    /\ building = <<>>
    /\ runs = <<>>

PolygonIdle ==
    /\ polygon = <<>>
    /\ probe = <<>>
    /\ inside = <<>>

OsmIdle == osm = <<>>

SessionsIdle ==
    /\ grng = 0
    /\ sessions = <<>>
    /\ hist = <<>>

\* MapGenerator(bbox, map_size): a transformer for the bounding box, an empty
\* map, no road tile, no profile, npc_counter = 0. rng is the state of the
\* random module the session draws from, hash_key the string-hash key of its
\* process, exc the exception that ended its generation pass, if any.
MapGenerator(bb, ms) ==
    [rng |-> 0,
     hash_key |-> 0,
     bbox |-> bb,
     map_size |-> ms,
     grid |-> [chunks |-> EmptyMap, order |-> <<>>],
     nodes |-> [id \in {} |-> <<>>],
     road_tiles |-> [t \in {} |-> ""],
     npc_profiles |-> <<>>,
     npc_counter |-> 0,
     exc |-> None]

NewSession == MapGenerator(<<0, 0, 1, 1>>, <<1, 1>>)

NewRun == [pc |-> "start", key |-> 0, st |-> NewSession,
           files |-> [n \in {} |-> <<>>], exc |-> None]

\* --------------------------------------------------- specifications

\* The UltimaMap under any sequence of get_chunk, set_terrain and direct
\* writes through returned chunks.
Init ==
    /\ TransformerIdle /\ GridInit /\ ExportInit /\ EncodeIdle /\ RunsIdle
    /\ PolygonIdle /\ SessionsIdle /\ OsmIdle

Next ==
    \/ \E k \in ChunkKeys : GetChunk(k[1], k[2])
    \/ \E c \in HandleCells, v \in HandleIds : MutateChunk(c[1], c[2], v)
    \/ \E t \in PaintTiles, id \in PaintIds : SetTerrain(t[1], t[2], id)

Spec == Init /\ [][Next]_vars

\* The coordinate transformer of any bounding box and world size, applied to
\* any point.
InitTransform ==
    /\ bbox \in BBoxes
    /\ map_size \in WorldSizes
    /\ point \in PointCoords \X PointCoords
    /\ tile = None
    /\ GridInit /\ ExportInit /\ EncodeIdle /\ RunsIdle
    /\ PolygonIdle /\ SessionsIdle /\ OsmIdle

NextTransform == \E lon \in PointCoords, lat \in PointCoords : Transform(lon, lat)

SpecTransform == InitTransform /\ [][NextTransform]_vars

\* A map filled by add_object, with chunks also created empty by get_chunk,
\* and exported any number of times into the same output directory.
NextExport ==
    \/ \E o \in GridObjects : AddObject(o)
    \/ \E k \in ChunkKeys : GetChunk(k[1], k[2])
    \/ ExportIreg

SpecExport == Init /\ [][NextExport]_vars

\* to_ireg_bytes called on any object the generator builds.
NextEncode == \E o \in EncodeObjects : Encode(o)

SpecEncode == Init /\ [][NextEncode]_vars

\* Two runs of the generator with the same seed on the same building; each
\* process has its own string-hash key.
InitRuns ==
    /\ seed \in Seeds
    /\ building \in Buildings
    /\ runs = [r \in Runs |-> NewRun]
    /\ TransformerIdle /\ GridInit /\ ExportInit /\ EncodeIdle
    /\ PolygonIdle /\ SessionsIdle /\ OsmIdle

NextRuns ==
    \/ \E r \in Runs, key \in HashKeys : StartProcess(r, key)
    \/ \E r \in Runs : PlaceBuildingNpcs(r)
    \/ \E r \in Runs : ExportRun(r)

SpecRuns == InitRuns /\ [][NextRuns]_vars

\* Axis-aligned rectangles with integer corners, as tile-space vertex lists:
\* either orientation, and with or without the closing vertex of a closed way.
RectCoords == (0..RectMax) \cup {10}
ProbeCoords == ((0 - ProbePad)..(RectMax + ProbePad)) \cup {5, 9, 10, 11, 15}

Reverse(seq) == [i \in 1..Len(seq) |-> seq[Len(seq) + 1 - i]]

RectVertices(x0, y0, x1, y1, closed, reversed) ==
    LET ring == <<<<x0, y0>>, <<x1, y0>>, <<x1, y1>>, <<x0, y1>>>>
        way == IF closed THEN Append(ring, <<x0, y0>>) ELSE ring
    IN  IF reversed THEN Reverse(way) ELSE way

Rectangles ==
    {RectVertices(x0, y0, x1, y1, c, r) :
        x0 \in RectCoords, y0 \in RectCoords,
        x1 \in RectCoords, y1 \in RectCoords, c \in BOOLEAN, r \in BOOLEAN}

\* self._point_in_polygon(x, y, tile_coords)
PointInPolygon ==
    /\ inside = <<>>
    /\ inside' = <<point_in_polygon(probe[1], probe[2], polygon)>>
    /\ UNCHANGED <<polygon, probe, TransformerVars, GridVars, ExportVars, EncodeVars,
                   RunVars, SessionVars, OsmVars>>

\* _point_in_polygon applied to any rectangle and any tile around it.
InitPolygon ==
    /\ polygon \in Rectangles
    /\ probe \in ProbeCoords \X ProbeCoords
    /\ inside = <<>>
    /\ TransformerIdle /\ GridInit /\ ExportInit /\ EncodeIdle /\ RunsIdle
    /\ SessionsIdle /\ OsmIdle

NextPolygon == PointInPolygon

SpecPolygon == InitPolygon /\ [][NextPolygon]_vars


\* ---------------------------------------------------- generation sessions

\* The world of the sessions: 2 x 2 chunks over a bounding box of 32 x 32
\* coordinate units, so that one unit of longitude is one tile.
SessionBBox == <<0, 0, 32, 32>>
SessionMapSize == <<2, 2>>

\* The closed way around the tiles (x0, y0) .. (x1, y1): latitude 32 - y
\* lands on tile row y.
Footprint(x0, y0, x1, y1) ==
    <<<<x0, 32 - y0>>, <<x1, 32 - y0>>, <<x1, 32 - y1>>, <<x0, 32 - y1>>,
      <<x0, 32 - y0>>>>

Building(building_tag, x0, y0, x1, y1) ==
    [building |-> building_tag, coords |-> Footprint(x0, y0, x1, y1)]

\* A 10 x 10 house, an 8 x 8 tavern across a chunk border, a 3 x 3 shop, and
\* footprints of 1 and of 2 tiles.
BuildingFeatures ==
    {Building("house", 1, 1, 10, 10),
     Building("tavern", 12, 1, 19, 8),
     Building("shop", 25, 25, 27, 27),
     Building("house", 20, 20, 20, 20),
     Building("house", 22, 20, 23, 20)}

SessionIds == 1..Len(sessions)

\* the session as a handler sees it: drawing from the process-wide generator
Entered(i) == [sessions[i] EXCEPT !.rng = grng]

\* ids of the profiles a handler appended
NewNpcs(before, after) ==
    [k \in 1..(Len(after.npc_profiles) - Len(before.npc_profiles)) |->
        after.npc_profiles[Len(before.npc_profiles) + k].id]

\* the rooms _generate_interior plans for a footprint box, <<>> if it is not
\* called or returns early
PlannedRooms(st, building_tag, box) ==
    LET inner == <<box[1] + 1, box[2] + 1, box[3] - 1, box[4] - 1>>
    IN  IF /\ Max(1, box[3] - box[1]) >= MinInterior
           /\ Max(1, box[4] - box[2]) >= MinInterior
           /\ inner[3] - inner[1] >= 2
           /\ inner[4] - inner[2] >= 2
        THEN plan_rooms(st, building_tag, inner).rooms
        ELSE <<>>

\* _process_way(way) of session i for a way tagged building
ProcessBuilding(i, f) ==
    LET st0 == Entered(i)
        st1 == process_building(st0, f.building, f.coords)
        box == FootprintBox(st0, f.coords)
    IN  /\ sessions[i].exc = None
        /\ Len(hist[i]) < MaxFeatures
        /\ grng' = st1.rng
        /\ sessions' = [sessions EXCEPT ![i] = [st1 EXCEPT !.rng = 0]]
        /\ hist' = [hist EXCEPT ![i] =
                       Append(@, [kind |-> "building",
                                  feature |-> f,
                                  box |-> box,
                                  rooms |-> PlannedRooms(st0, f.building, box),
                                  npcs |-> NewNpcs(st0, st1),
                                  exc |-> st1.exc])]
        /\ UNCHANGED <<TransformerVars, GridVars, ExportVars, EncodeVars, RunVars,
                       PolygonVars, OsmVars>>

\* One session, seeded by main() before the generator is built, processing
\* any list of building ways.
InitBuildings ==
    /\ \E s \in Seeds : grng = Seeded(s)
    /\ \E key \in HashKeys :
           sessions = <<[MapGenerator(SessionBBox, SessionMapSize)
                            EXCEPT !.hash_key = key]>>
    /\ hist = <<<<>>>>
    /\ TransformerIdle /\ GridInit /\ ExportInit /\ EncodeIdle /\ RunsIdle
    /\ PolygonIdle /\ OsmIdle

NextBuildings == \E i \in SessionIds, f \in BuildingFeatures : ProcessBuilding(i, f)

SpecBuildings == InitBuildings /\ [][NextBuildings]_vars


\* professions whose profiles are created below
ProfileTypes == {"entertainer", "townsman", "townswoman", "guard"}

\* profile = self._create_npc_profile(npc_type, building_type, x, y, shape,
\* npc_data); self.npc_profiles.append(profile) -- for any profession, at the
\* building's first interior tile
CreateNpcProfile(i, npc_type, f) ==
    LET st0 == Entered(i)
        box == FootprintBox(st0, f.coords)
        st1 == create_npc_profile(st0, npc_type, f.building, box[1] + 1, box[2] + 1,
                                  NpcShapesOf(npc_type)[1])
    IN  /\ Len(sessions[i].npc_profiles) < MaxProfiles
        /\ grng' = st1.rng
        /\ sessions' = [sessions EXCEPT ![i] = [st1 EXCEPT !.rng = 0]]
        /\ hist' = [hist EXCEPT ![i] =
                       Append(@, [kind |-> "profile", npcs |-> NewNpcs(st0, st1)])]
        /\ UNCHANGED <<TransformerVars, GridVars, ExportVars, EncodeVars, RunVars,
                       PolygonVars, OsmVars>>

\* self._create_building_relationships(building_npcs), building_npcs the ids
\* of the k profiles created last
CreateBuildingRelationships(i, k) ==
    LET st0 == Entered(i)
        n   == Len(st0.npc_profiles)
        npc_ids == [j \in 1..k |-> st0.npc_profiles[n - k + j].id]
        st1 == create_building_relationships(st0, npc_ids)
    IN  /\ k <= n
        /\ hist[i] # <<>>
        /\ hist[i][Len(hist[i])].kind = "profile"
        /\ grng' = st1.rng
        /\ sessions' = [sessions EXCEPT ![i] = [st1 EXCEPT !.rng = 0]]
        /\ hist' = [hist EXCEPT ![i] =
                       Append(@, [kind |-> "relationships", npcs |-> npc_ids])]
        /\ UNCHANGED <<TransformerVars, GridVars, ExportVars, EncodeVars, RunVars,
                       PolygonVars, OsmVars>>

\* One seeded session creating profiles of any profession and relating any
\* group of the profiles created last.
NextProfiles ==
    \/ \E i \in SessionIds, t \in ProfileTypes, f \in BuildingFeatures :
           f.building = "tavern" /\ CreateNpcProfile(i, t, f)
    \/ \E i \in SessionIds, k \in 0..MaxProfiles : CreateBuildingRelationships(i, k)

SpecProfiles == InitBuildings /\ [][NextProfiles]_vars


\* the node on tile (x, y): latitude 32 - y lands on tile row y
Node(x, y) == <<x, 32 - y>>

Highway(highway_type, is_bridge, nodes) ==
    [tags |-> [highway |-> highway_type, bridge |-> is_bridge], coords |-> nodes]

\* A primary road (width 3); a footway (width 1) of two segments crossing it;
\* a footway whose two nodes fall on one tile of the primary road; a track
\* (width 1) along the world's corner; a residential bridge (width 2).
HighwayFeatures ==
    {Highway("primary", FALSE, <<Node(4, 10), Node(9, 10)>>),
     Highway("footway", FALSE, <<Node(6, 7), Node(6, 12), Node(8, 12)>>),
     Highway("footway", FALSE, <<Node(6, 10), Node(6, 10)>>),
     Highway("track", FALSE, <<Node(0, 0), Node(3, 2)>>),
     Highway("residential", TRUE, <<Node(12, 12), Node(15, 12)>>)}

\* _process_way(way) of session i for a way tagged highway
ProcessHighway(i, f) ==
    LET st0 == Entered(i)
        st1 == process_highway(st0, f.tags, f.coords)
    IN  /\ sessions[i].exc = None
        /\ Len(hist[i]) < MaxFeatures
        /\ grng' = st1.rng
        /\ sessions' = [sessions EXCEPT ![i] = [st1 EXCEPT !.rng = 0]]
        /\ hist' = [hist EXCEPT ![i] =
                       Append(@, [kind |-> "highway",
                                  feature |-> f,
                                  npcs |-> <<>>,
                                  exc |-> st1.exc])]
        /\ UNCHANGED <<TransformerVars, GridVars, ExportVars, EncodeVars, RunVars,
                       PolygonVars, OsmVars>>

\* One seeded session processing any list of highway ways.
InitRoads ==
    /\ \E s \in Seeds : grng = Seeded(s)
    /\ sessions = <<MapGenerator(SessionBBox, SessionMapSize)>>
    /\ hist = <<<<>>>>
    /\ TransformerIdle /\ GridInit /\ ExportInit /\ EncodeIdle /\ RunsIdle
    /\ PolygonIdle /\ OsmIdle

NextRoads == \E i \in SessionIds, f \in HighwayFeatures : ProcessHighway(i, f)

SpecRoads == InitRoads /\ [][NextRoads]_vars


\* the ways the two interleaved sessions process: the footways and the track
InterleavedFeatures ==
    {f \in HighwayFeatures : f.tags.highway \in {"footway", "track"}}

\* One process: main() seeds the random module once, two MapGenerator
\* sessions are built in it and their feature steps are interleaved in any
\* order.
InitInterleaved ==
    /\ seed \in Seeds
    /\ grng = Seeded(seed)
    /\ sessions = <<MapGenerator(SessionBBox, SessionMapSize),
                    MapGenerator(SessionBBox, SessionMapSize)>>
    /\ hist = <<<<>>, <<>>>>
    /\ building = <<>>
    /\ runs = <<>>
    /\ TransformerIdle /\ GridInit /\ ExportInit /\ EncodeIdle /\ PolygonIdle /\ OsmIdle

NextInterleaved ==
    \E i \in SessionIds, f \in InterleavedFeatures : ProcessHighway(i, f)

SpecInterleaved == InitInterleaved /\ [][NextInterleaved]_vars



\* Interiors handed to _generate_interior, by their extents (max_x - min_x,
\* max_y - min_y): below 2, below 6 on one side, and 6 or more on both; the
\* boxes start at (11, 2), so the wider ones cross a chunk border.
InteriorExtents ==
    {<<1, 7>>, <<5, 7>>, <<7, 5>>, <<6, 6>>, <<7, 7>>, <<6, 9>>, <<9, 6>>}
InteriorBoxes == {<<11, 2, 11 + e[1], 2 + e[2]>> : e \in InteriorExtents}

\* every building type _plan_rooms names, and one it does not
InteriorTypes ==
    {"house", "residential", "shop", "retail", "commercial", "tavern", "castle",
     "government", "church"}

\* Rooms handed to _furnish_room on its own: of one tile, of two, and of four.
SmallRooms ==
    {Room("main", 3, 3, 3, 3), Room("bedroom", 3, 3, 3, 4), Room("living", 3, 3, 4, 4)}

\* self._generate_interior(building_type, min_x, min_y, max_x, max_y) of
\* session i
GenerateInterior(i, building_type, box) ==
    LET st0 == Entered(i)
        r == generate_interior_traced(st0, building_type, box)
    IN  /\ sessions[i].exc = None
        /\ Len(hist[i]) < MaxInteriors
        /\ grng' = r.st.rng
        /\ sessions' = [sessions EXCEPT ![i] = [r.st EXCEPT !.rng = 0]]
        /\ hist' = [hist EXCEPT ![i] =
                       Append(@, [kind |-> "interior",
                                  feature |-> [building |-> building_type],
                                  box |-> box,
                                  rooms |-> r.rooms,
                                  logs |-> r.logs,
                                  npcs |-> <<>>,
                                  exc |-> r.st.exc])]
        /\ UNCHANGED <<TransformerVars, GridVars, ExportVars, EncodeVars, RunVars,
                       PolygonVars, OsmVars>>

\* self._furnish_room(building_type, room) of session i
FurnishRoom(i, building_type, room) ==
    LET st0 == Entered(i)
        r == furnish_room_traced(st0, building_type, room)
    IN  /\ sessions[i].exc = None
        /\ Len(hist[i]) < MaxInteriors
        /\ grng' = r.st.rng
        /\ sessions' = [sessions EXCEPT ![i] = [r.st EXCEPT !.rng = 0]]
        /\ hist' = [hist EXCEPT ![i] =
                       Append(@, [kind |-> "room",
                                  feature |-> [building |-> building_type],
                                  box |-> <<room.min_x, room.min_y, room.max_x, room.max_y>>,
                                  rooms |-> <<room>>,
                                  logs |-> <<r.log>>,
                                  npcs |-> <<>>,
                                  exc |-> r.st.exc])]
        /\ UNCHANGED <<TransformerVars, GridVars, ExportVars, EncodeVars, RunVars,
                       PolygonVars, OsmVars>>

\* One seeded session generating the interior of any building type over any
\* of the interiors, or furnishing a room on its own.
NextInterior ==
    \/ \E i \in SessionIds, building_type \in InteriorTypes, box \in InteriorBoxes :
           GenerateInterior(i, building_type, box)
    \/ \E i \in SessionIds, room \in SmallRooms : FurnishRoom(i, "house", room)

SpecInterior == InitRoads /\ [][NextInterior]_vars



\* A node element on tile (x, y), without and with tags.
NodeElement(id, x, y) ==
    [type |-> "node", id |-> id, lon |-> Node(x, y)[1], lat |-> Node(x, y)[2]]

TaggedNode(id, x, y, tags) ==
    [type |-> "node", id |-> id, lon |-> Node(x, y)[1], lat |-> Node(x, y)[2],
     tags |-> tags]

WayElement(tags, nodes) == [type |-> "way", tags |-> tags, nodes |-> nodes]

\* The element lists handed to process_osm_data:
\*  1  a footway whose nodes are defined after it and whose list names an
\*     unknown id between known ones;
\*  2  a way without node list, a way with an empty one and a way none of
\*     whose ids is known, ahead of a track;
\*  3  a closed grass area and a fountain;
\*  4  an open wood area with its trees and a closed water area;
\*  5  a river along the world's edge and a fence;
\*  6  a house, a bridge and a well outside the bounding box;
\*  7  a closed area reduced to two corners and a footway reduced to one node.
OsmInputs ==
    {<<WayElement([highway |-> "footway", bridge |-> FALSE], <<1, 99, 2, 3>>),
       NodeElement(1, 6, 7), NodeElement(2, 6, 12), NodeElement(3, 8, 12)>>,
     <<NodeElement(1, 0, 0),
       [type |-> "way", tags |-> [highway |-> "primary", bridge |-> FALSE]],
       WayElement([building |-> "house"], <<>>),
       WayElement([highway |-> "primary", bridge |-> FALSE], <<98, 99>>),
       WayElement([highway |-> "track", bridge |-> FALSE], <<1, 2>>),
       NodeElement(2, 3, 2)>>,
     <<NodeElement(1, 2, 2), NodeElement(2, 7, 2), NodeElement(3, 7, 7),
       NodeElement(4, 2, 7),
       WayElement([landuse |-> "grass"], <<1, 2, 3, 4, 1>>),
       TaggedNode(5, 20, 20, [amenity |-> "fountain"])>>,
     <<NodeElement(1, 17, 3), NodeElement(2, 21, 3), NodeElement(3, 21, 6),
       NodeElement(4, 17, 6),
       WayElement([natural |-> "wood"], <<1, 2, 3, 4>>),
       WayElement([natural |-> "water"], <<1, 2, 3, 4, 1>>)>>,
     <<NodeElement(1, 0, 5), NodeElement(2, 4, 5), NodeElement(3, 4, 9),
       WayElement([waterway |-> "river"], <<1, 2>>),
       WayElement([barrier |-> "fence"], <<2, 3, 3>>)>>,
     <<NodeElement(1, 1, 17), NodeElement(2, 10, 17), NodeElement(3, 10, 26),
       NodeElement(4, 1, 26),
       WayElement([building |-> "house"], <<1, 2, 3, 4, 1>>),
       WayElement([highway |-> "residential", bridge |-> TRUE], <<2, 5>>),
       TaggedNode(5, 40, 17, [amenity |-> "drinking_water"])>>,
     <<NodeElement(1, 2, 2), NodeElement(3, 7, 7),
       WayElement([landuse |-> "meadow"], <<1, 2, 3, 4, 1>>),
       WayElement([highway |-> "footway", bridge |-> FALSE], <<1, 8, 9>>)>>}

\* the tiles whose terrain process_element writes: those that do not keep
\* the marker when the element is processed over a map holding a marker no
\* handler writes in every cell
Unwritten == 0 - 1

MarkedGrid(ms) ==
    LET keys == (0 .. ms[1] - 1) \X (0 .. ms[2] - 1)
    IN  [chunks |-> [k \in keys |->
                        [terrain |-> [ly \in Local |-> [lx \in Local |-> Unwritten]],
                         objects |-> <<>>]],
         order |-> <<>>]

WrittenBy(st, element) ==
    LET marked == process_element([st EXCEPT !.grid = MarkedGrid(st.map_size)],
                                  element).grid
    IN  {t \in (0 .. st.map_size[1] * TilesPerChunk - 1)
               \X (0 .. st.map_size[2] * TilesPerChunk - 1) :
            TerrainAt(marked.chunks, t[1], t[2]) # Unwritten}

\* process_osm_data of session i, first pass: every node is cached
CacheNodes(i) ==
    /\ osm[i].pc = "cache"
    /\ sessions' = [sessions EXCEPT ![i] = cache_nodes(@, osm[i].elements)]
    /\ osm' = [osm EXCEPT ![i].pc = "process"]
    /\ UNCHANGED <<grng, hist>>
    /\ UNCHANGED <<TransformerVars, GridVars, ExportVars, EncodeVars, RunVars,
                   PolygonVars>>

\* process_osm_data of session i, one iteration of the second pass; an
\* exception leaves the call
ProcessElement(i) ==
    /\ osm[i].pc = "process"
    /\ osm[i].next <= Len(osm[i].elements)
    /\ LET element == osm[i].elements[osm[i].next]
           st0 == Entered(i)
           st1 == process_element(st0, element)
       IN  /\ grng' = st1.rng
           /\ sessions' = [sessions EXCEPT ![i] = [st1 EXCEPT !.rng = 0]]
           /\ hist' = [hist EXCEPT ![i] =
                          Append(@, [kind |-> "element",
                                     feature |-> element,
                                     written |-> WrittenBy(st0, element),
                                     npcs |-> NewNpcs(st0, st1),
                                     exc |-> st1.exc])]
           /\ osm' = [osm EXCEPT ![i].next = @ + 1,
                                 ![i].pc = IF st1.exc # None THEN "raised" ELSE @]
    /\ UNCHANGED <<TransformerVars, GridVars, ExportVars, EncodeVars, RunVars,
                   PolygonVars>>

\* process_osm_data of session i, after the second pass:
\* self._fill_default_terrain()
FillDefaultTerrain(i) ==
    /\ osm[i].pc = "process"
    /\ osm[i].next > Len(osm[i].elements)
    /\ LET st1 == fill_default_terrain(Entered(i))
       IN  /\ grng' = st1.rng
           /\ sessions' = [sessions EXCEPT ![i] = [st1 EXCEPT !.rng = 0]]
    /\ osm' = [osm EXCEPT ![i].pc = "done"]
    /\ UNCHANGED hist
    /\ UNCHANGED <<TransformerVars, GridVars, ExportVars, EncodeVars, RunVars,
                   PolygonVars>>

\* One seeded session whose process_osm_data is called with any of the
\* element lists.
InitOsm ==
    /\ \E s \in Seeds : grng = Seeded(s)
    /\ sessions = <<MapGenerator(SessionBBox, SessionMapSize)>>
    /\ hist = <<<<>>>>
    /\ \E elements \in OsmInputs :
           osm = <<[elements |-> elements, pc |-> "cache", next |-> 1]>>
    /\ TransformerIdle /\ GridInit /\ ExportInit /\ EncodeIdle /\ RunsIdle
    /\ PolygonIdle

NextOsm ==
    \/ \E i \in SessionIds : CacheNodes(i)
    \/ \E i \in SessionIds : ProcessElement(i)
    \/ \E i \in SessionIds : FillDefaultTerrain(i)

SpecOsm == InitOsm /\ [][NextOsm]_vars



\* A world wider than twelve superchunks: 208 x 32 chunks over a bounding box
\* of 3328 x 512 coordinate units, one unit per tile (--size 208,32).
WideBBox == <<0, 0, 3328, 512>>
WideMapSize == <<208, 32>>

\* a fountain node on tile (x, y) of the wide world
Fountain(id, x, y) ==
    [type |-> "node", id |-> id, lon |-> x, lat |-> 512 - y,
     tags |-> [amenity |-> "fountain"]]

\* Fountains in the superchunks (row 0, col 0), (0, 1), (0, 12), (1, 0) and
\* (1, 12), and a second one in (0, 0).
WideNodes ==
    {Fountain(1, 5, 5), Fountain(2, 300, 5), Fountain(3, 3077, 5),
     Fountain(4, 5, 261), Fountain(5, 3080, 300), Fountain(6, 40, 5)}

\* _process_node(node) of session i
ProcessNode(i, node) ==
    LET st0 == Entered(i)
        st1 == process_node(st0, node)
    IN  /\ sessions[i].exc = None
        /\ Len(hist[i]) < MaxFeatures
        /\ grng' = st1.rng
        /\ sessions' = [sessions EXCEPT ![i] = [st1 EXCEPT !.rng = 0]]
        /\ hist' = [hist EXCEPT ![i] =
                       Append(@, [kind |-> "node",
                                  feature |-> node,
                                  npcs |-> <<>>,
                                  exc |-> st1.exc])]
        /\ UNCHANGED <<TransformerVars, GridVars, ExportVars, EncodeVars, RunVars,
                       PolygonVars, OsmVars>>

\* MapExporter(generator.ultima_map).export_ireg(output_dir) for session i
ExportSession(i) ==
    LET r == export_ireg(files, sessions[i].grid)
    IN  /\ Len(exports) < MaxExports
        /\ files' = r.files
        /\ exports' = Append(exports, [exc |-> r.exc,
                                       visited |-> Visited(sessions[i].grid, 1)])
        /\ UNCHANGED <<TransformerVars, GridVars, EncodeVars, RunVars, PolygonVars,
                       SessionVars, OsmVars>>

\* One seeded session over the wide world, processing point features and
\* exporting.
InitWide ==
    /\ \E s \in Seeds : grng = Seeded(s)
    /\ sessions = <<MapGenerator(WideBBox, WideMapSize)>>
    /\ hist = <<<<>>>>
    /\ TransformerIdle /\ GridInit /\ ExportInit /\ EncodeIdle /\ RunsIdle
    /\ PolygonIdle /\ OsmIdle

NextWide ==
    \/ \E i \in SessionIds, node \in WideNodes : ProcessNode(i, node)
    \/ \E i \in SessionIds : ExportSession(i)

SpecWide == InitWide /\ [][NextWide]_vars


\* ============================================================ claims

\* C1: two runs with the same seed and the same input produce byte-identical
\* streams for every superchunk, and the same placed objects field by field
\* (shape, frame, tile, lift, quality), in the same order.
C1_RunsIdentical ==
    (runs[1].pc = "exported" /\ runs[2].pc = "exported") =>
        /\ runs[1].files = runs[2].files
        /\ Visited(runs[1].st.grid, 1) = Visited(runs[2].st.grid, 1)

\* The record the format prescribes for an object: byte 0 = 10, byte 1 =
\* ((x div 16) mod 16) << 4 | (x mod 16), byte 2 likewise for y, byte 3 =
\* shape & 0xFF, byte 4 = ((shape >> 8) & 3) | (frame << 2), byte 5 =
\* lift & 0x0F, byte 6 = quality & 0xFF, bytes 7-9 = 0.
ExpectedRecord(o) ==
    << 10,
       ((o.x \div 16) % 16) * 16 + (o.x % 16),
       ((o.y \div 16) % 16) * 16 + (o.y % 16),
       o.shape % 256,
       ((o.shape \div 256) % 4) + o.frame * 4,
       o.lift % 16,
       o.quality % 256,
       0, 0, 0 >>

\* C2: encoding any object the generator can put into the grid yields
\* exactly the 10 bytes of the record format; an object at tile (17,33) gives
\* byte 1 = 0x11 and byte 2 = 0x21.
C2_RecordLayout ==
    encIn # <<>> =>
        /\ encOut[1].exc = None
        /\ Len(encOut[1].bytes) = 10
        /\ encOut[1].bytes = ExpectedRecord(encIn[1])
        /\ (encIn[1].x = 17 /\ encIn[1].y = 33) =>
              (encOut[1].bytes[2] = 17 /\ encOut[1].bytes[3] = 33)

C4_LatitudeFlipped ==
    (tile # None /\ bbox[4] > bbox[2] /\ point[1] = bbox[1]) =>
        /\ point[2] = bbox[4] => tile[2] = 0
        /\ point[2] = bbox[2] => tile[2] = 16 * map_size[2] - 1

\* The south-west corner of a box with positive latitude span was transformed
\* and landed on the bottom row.
C4_Witness ==
    /\ tile # None
    /\ bbox[4] > bbox[2]
    /\ point = <<bbox[1], bbox[2]>>
    /\ tile[2] = 16 * map_size[2] - 1

\* C5: with zero span on an axis the transform yields a tile (it does not
\* fail) and every point maps to the midpoint tile dim/2 on that axis,
\* whatever the point's coordinate.
C5_ZeroSpanMidpoint ==
    tile # None =>
        /\ bbox[1] = bbox[3] => tile[1] = (16 * map_size[1]) \div 2
        /\ bbox[2] = bbox[4] => tile[2] = (16 * map_size[2]) \div 2

\* A point away from a zero-width box was transformed to the middle column.
C5_Witness ==
    /\ tile # None
    /\ bbox[1] = bbox[3]
    /\ point[1] # bbox[1]
    /\ tile[1] = (16 * map_size[1]) \div 2

\* C6: get_chunk is idempotent. A call on an absent coordinate adds exactly
\* one chunk, with default terrain and no objects, and leaves the others as
\* they were; a call on a present coordinate changes nothing in the map; and
\* every cell written so far, through a returned chunk or by set_terrain,
\* still reads back its value.
C6_GetChunkStep ==
    lastOp'.op = "get_chunk" =>
        LET k == lastOp'.key
        IN  IF k \in DOMAIN chunks
            THEN chunks' = chunks /\ chunkOrder' = chunkOrder
            ELSE /\ DOMAIN chunks' = DOMAIN chunks \cup {k}
                 /\ chunks'[k].objects = <<>>
                 /\ \A ly \in 0 .. 15, lx \in 0 .. 15 : chunks'[k].terrain[ly][lx] = 4
                 /\ \A j \in DOMAIN chunks : chunks'[j] = chunks[j]

C6_WritesVisible ==
    \A t \in DOMAIN painted :
        /\ <<t[1] \div 16, t[2] \div 16>> \in DOMAIN chunks
        /\ chunks[<<t[1] \div 16, t[2] \div 16>>].terrain[t[2] % 16][t[1] % 16] = painted[t]

\* C6 (get_chunk idempotent and mutation-visible): every get_chunk step is as
\* C6_GetChunkStep says, and every written cell always reads back.
C6_GetChunkIdempotent == [][C6_GetChunkStep]_vars /\ []C6_WritesVisible

\* get_chunk was called again on a chunk that had been written through an
\* earlier call's result, and the value is still there.
C6_Witness ==
    /\ lastOp.op = "get_chunk"
    /\ lastOp.existed
    /\ \E t \in DOMAIN painted :
          /\ <<t[1] \div 16, t[2] \div 16>> = lastOp.key
          /\ painted[t] = 99
          /\ chunks[lastOp.key].terrain[t[2] % 16][t[1] % 16] = 99

\* C7: after set_terrain(x, y, id) the chunk (x div 16, y div 16) exists and
\* its terrain cell at local (x mod 16, y mod 16) equals id, whether or not the
\* chunk existed before.
C7_SetTerrainReadBack ==
    lastOp.op = "set_terrain" =>
        LET x  == lastOp.arg[1]
            y  == lastOp.arg[2]
            id == lastOp.arg[3]
        IN  /\ <<x \div 16, y \div 16>> \in DOMAIN chunks
            /\ chunks[<<x \div 16, y \div 16>>].terrain[y % 16][x % 16] = id

\* set_terrain created the chunk of a tile whose local x and y differ, and the
\* cell holds the id.
C7_Witness ==
    /\ lastOp.op = "set_terrain"
    /\ ~lastOp.existed
    /\ lastOp.arg[1] % 16 # lastOp.arg[2] % 16
    /\ TerrainAt(chunks, lastOp.arg[1], lastOp.arg[2]) = lastOp.arg[3]

\* C8: after any sequence of add_object calls each chunk's object list is
\* exactly the objects whose tile lies in that chunk, in call order, so every
\* object is stored once, in chunk (x div 16, y div 16), and the number of
\* stored objects equals the number of calls.
InChunk(objs, k) ==
    LET Here(o) == <<o.x \div 16, o.y \div 16>> = k
    IN  SelectSeq(objs, Here)

RECURSIVE SumLen(_, _)
SumLen(ch, keys) ==
    IF keys = {} THEN 0
    ELSE LET k == CHOOSE j \in keys : TRUE
         IN  Len(ch[k].objects) + SumLen(ch, keys \ {k})

\* C8 (each object in exactly one chunk, its own, once, in insertion order).
C8_ObjectsInOwnChunk ==
    /\ \A i \in 1 .. Len(added) :
          <<added[i].x \div 16, added[i].y \div 16>> \in DOMAIN chunks
    /\ \A k \in DOMAIN chunks : chunks[k].objects = InChunk(added, k)
    /\ SumLen(chunks, DOMAIN chunks) = Len(added)

\* Two different objects were added to the same chunk, one whose x and y
\* chunk coordinates differ.
C8_Witness ==
    /\ Len(added) >= 2
    /\ \E k \in DOMAIN chunks :
          /\ Len(chunks[k].objects) = 2
          /\ chunks[k].objects[1] # chunks[k].objects[2]
          /\ k[1] # k[2]

\* The stream of superchunk idx: the records of the objects of that
\* superchunk, in visitation order.
RECURSIVE StreamOf(_, _, _)
StreamOf(objs, idx, i) ==
    IF i > Len(objs) THEN <<>>
    ELSE (IF ((objs[i].y \div 16) \div 16) * 12 + ((objs[i].x \div 16) \div 16) = idx
          THEN ExpectedRecord(objs[i]) ELSE <<>>)
         \o StreamOf(objs, idx, i + 1)

StreamIndices(objs) ==
    {((objs[i].y \div 16) \div 16) * 12 + ((objs[i].x \div 16) \div 16) :
        i \in 1 .. Len(objs)}

\* The stream name: the index as two hexadecimal digits.
StreamName(idx) ==
    "u7ireg" \o HexDigits[(idx \div 16) + 1] \o HexDigits[(idx % 16) + 1]

RECURSIVE Copies(_, _)
Copies(s, k) == IF k = 0 THEN <<>> ELSE s \o Copies(s, k - 1)

\* C9: in one export every placed object is written exactly once, to the
\* stream of its superchunk index (chunkY div 16) * 12 + (chunkX div 16), and
\* the objects of one superchunk are in one stream in visitation order.
C9_OneExportWritesAll ==
    (lastOp.op = "export_ireg" /\ Len(exports) = 1) =>
        LET objs == exports[1].visited
        IN  /\ DOMAIN files = {StreamName(idx) : idx \in StreamIndices(objs)}
            /\ \A idx \in StreamIndices(objs) :
                  files[StreamName(idx)] = StreamOf(objs, idx, 1)

\* C10: export is append-based: k exports of the same grid into the same
\* target leave each stream with k consecutive copies of its records.
C10_ExportAppends ==
    (/\ lastOp.op = "export_ireg"
     /\ Len(exports) >= 2
     /\ \A i \in 1 .. Len(exports) : exports[i].visited = exports[1].visited) =>
        LET objs == exports[1].visited
        IN  \A idx \in StreamIndices(objs) :
               /\ StreamName(idx) \in DOMAIN files
               /\ files[StreamName(idx)] = Copies(StreamOf(objs, idx, 1), Len(exports))

Range(seq) == {seq[i] : i \in 1..Len(seq)}

PolyMinX(poly) == CHOOSE m \in {p[1] : p \in Range(poly)} : \A p \in Range(poly) : m <= p[1]
PolyMaxX(poly) == CHOOSE m \in {p[1] : p \in Range(poly)} : \A p \in Range(poly) : m >= p[1]
PolyMinY(poly) == CHOOSE m \in {p[2] : p \in Range(poly)} : \A p \in Range(poly) : m <= p[2]
PolyMaxY(poly) == CHOOSE m \in {p[2] : p \in Range(poly)} : \A p \in Range(poly) : m >= p[2]

Square10 == <<<<0, 0>>, <<10, 0>>, <<10, 10>>, <<0, 10>>>>

\* C11: the point-in-polygon test is even-odd with the half-open edge
\* convention: for the square (0,0),(10,0),(10,10),(0,10) tile (5,5) tests
\* inside and (15,15) outside, and for every axis-aligned rectangle with
\* integer corners a tile (x, y) tests inside exactly when
\* minX <= x < maxX and minY <= y < maxY.
C11_HalfOpenRectangle ==
    inside # <<>> =>
        /\ inside[1] = (/\ PolyMinX(polygon) <= probe[1]
                        /\ probe[1] < PolyMaxX(polygon)
                        /\ PolyMinY(polygon) <= probe[2]
                        /\ probe[2] < PolyMaxY(polygon))
        /\ (polygon = Square10 /\ probe = <<5, 5>>) => inside[1]
        /\ (polygon = Square10 /\ probe = <<15, 15>>) => ~inside[1]

C11_Witness ==
    /\ polygon = Square10
    /\ probe = <<5, 5>>
    /\ inside = <<TRUE>>

\* every object of a grid
AllObjects(g) == UNION {Range(g.chunks[k].objects) : k \in DOMAIN g.chunks}

\* a wall object stands on tile (x, y)
WallAt(g, x, y) ==
    \E o \in AllObjects(g) :
        /\ o.x = x /\ o.y = y /\ o.lift = 0
        /\ o.shape \in Range(OBJECT_SHAPES["wall"])

\* the building steps of session i whose footprint is a house of w x h tiles
HouseSteps(i, w, h) ==
    {n \in 1..Len(hist[i]) :
        /\ hist[i][n].kind = "building"
        /\ hist[i][n].feature.building = "house"
        /\ hist[i][n].box[3] - hist[i][n].box[1] + 1 = w
        /\ hist[i][n].box[4] - hist[i][n].box[2] + 1 = h}

\* C12: a 10 x 10-tile footprint of type house produces exactly two rooms,
\* "living" and "bedroom", split horizontally (both span the interior's
\* columns, living above the split row and bedroom below it), and the
\* dividing wall leaves exactly one tile of the split row without a wall
\* object.
C12_HouseTwoRooms ==
    \A i \in SessionIds : \A n \in HouseSteps(i, 10, 10) :
        LET box == hist[i][n].box
            rooms == hist[i][n].rooms
        IN  /\ Len(rooms) = 2
            /\ rooms[1].type = "living"
            /\ rooms[2].type = "bedroom"
            /\ rooms[1].min_x = box[1] + 1 /\ rooms[1].max_x = box[3] - 1
            /\ rooms[2].min_x = box[1] + 1 /\ rooms[2].max_x = box[3] - 1
            /\ rooms[1].min_y = box[2] + 1
            /\ rooms[1].max_y + 1 = rooms[2].min_y
            /\ rooms[2].max_y = box[4] - 1
            /\ Cardinality({x \in rooms[1].min_x .. rooms[1].max_x :
                               ~WallAt(sessions[i].grid, x, rooms[1].max_y)}) = 1

C12_Witness ==
    \E i \in SessionIds : \E n \in HouseSteps(i, 10, 10) :
        /\ Len(hist[i][n].rooms) = 2
        /\ WallAt(sessions[i].grid, hist[i][n].rooms[1].min_x, hist[i][n].rooms[1].max_y)

\* a footprint box spanning fewer than 3 tiles in width or in height
Degenerate(box) == box[3] - box[1] + 1 < 3 \/ box[4] - box[2] + 1 < 3

\* the step just taken by session i was a building step on such a footprint
DegenerateStep(i) ==
    /\ Len(hist'[i]) = Len(hist[i]) + 1
    /\ hist'[i][Len(hist'[i])].kind = "building"
    /\ Degenerate(hist'[i][Len(hist'[i])].box)

\* C13: processing a building whose tile bounding box is below 3 tiles in
\* width or height is skipped entirely: no terrain cell, placed object, NPC
\* profile or relationship is added or changed by the step.
C13_DegenerateSkipped ==
    [][\A i \in SessionIds :
          DegenerateStep(i) =>
              /\ sessions'[i].grid = sessions[i].grid
              /\ sessions'[i].npc_profiles = sessions[i].npc_profiles]_vars

\* C14: the generation pass never aborts: whatever the ordered list of
\* features processed so far (footprints of 1 or 2 tiles included), no
\* handler has raised an error.
C14_NeverAborts == \A i \in SessionIds : sessions[i].exc = None

\* C15: NPC ids are unique within a session and assigned monotonically: no
\* two profiles of a session share an id, and the profile created n-th
\* carries the id of counter value n, so a profile created later has a
\* strictly larger counter value than every profile created earlier.
C15_NpcIdsUniqueMonotone ==
    \A i \in SessionIds :
        LET profiles == sessions[i].npc_profiles
        IN  /\ \A p \in 1..Len(profiles) : profiles[p].id = NpcId(p)
            /\ \A p, q \in 1..Len(profiles) :
                   p # q => profiles[p].id # profiles[q].id
            /\ sessions[i].npc_counter = Len(profiles)

\* profiles created by two building steps of one session
C15_Witness ==
    \E i \in SessionIds :
        /\ Len(hist[i]) = 2
        /\ Len(hist[i][1].npcs) >= 1
        /\ Len(hist[i][2].npcs) >= 2

\* C16: in every reachable state each of the five personality traits of
\* every NPC profile, and every stored relationship strength, lies in [0, 1]
\* (in thousandths: 0 .. 1000).
C16_TraitsAndStrengthsInUnit ==
    \A i \in SessionIds : \A p \in 1..Len(sessions[i].npc_profiles) :
        LET profile == sessions[i].npc_profiles[p]
        IN  /\ \A t \in 1..5 : 0 <= profile.traits[t] /\ profile.traits[t] <= 1000
            /\ \A k \in DOMAIN profile.relationships :
                   0 <= profile.relationships[k] /\ profile.relationships[k] <= 1000

\* an entertainer whose extraversion (base 0.9) was clamped to 1, related
\* to another profile
C16_Witness ==
    \E i \in SessionIds : \E p \in 1..Len(sessions[i].npc_profiles) :
        /\ sessions[i].npc_profiles[p].profession = "entertainer"
        /\ sessions[i].npc_profiles[p].traits[3] = 1000
        /\ DOMAIN sessions[i].npc_profiles[p].relationships # {}

\* the profile of session i that carries the id
ProfileOf(i, id) ==
    CHOOSE profile \in Range(sessions[i].npc_profiles) : profile.id = id

\* C17: after a building's occupants are placed, the relationship map of
\* each occupant profile has as keys exactly the ids of the other occupants
\* of that same building (never its own id, never an NPC of another
\* building), each with a strength in [0.3, 0.7]; a building with fewer than
\* two occupants adds no relationship.
C17_RelationshipsWithinBuilding ==
    \A i \in SessionIds :
        /\ \A n \in 1..Len(hist[i]) : \A id \in Range(hist[i][n].npcs) :
               LET relationships == ProfileOf(i, id).relationships
               IN  /\ DOMAIN relationships = Range(hist[i][n].npcs) \ {id}
                   /\ \A k \in DOMAIN relationships :
                          300 <= relationships[k] /\ relationships[k] <= 700
        /\ \A profile \in Range(sessions[i].npc_profiles) :
               \E n \in 1..Len(hist[i]) : profile.id \in Range(hist[i][n].npcs)

\* two occupied buildings in one session, one of them with related occupants
C17_Witness ==
    \E i \in SessionIds : \E n, m \in 1..Len(hist[i]) :
        /\ n # m
        /\ Len(hist[i][n].npcs) >= 2
        /\ Len(hist[i][m].npcs) >= 1
        /\ \A id \in Range(hist[i][n].npcs) :
               DOMAIN ProfileOf(i, id).relationships # {}

\* the tiles of the session's world
WorldTiles(st) ==
    (0 .. st.map_size[1] * TilesPerChunk - 1) \X (0 .. st.map_size[2] * TilesPerChunk - 1)

\* terrain id of a tile; a tile of a chunk never created reads as the default
TerrainOf(g, t) ==
    IF ChunkKey(t[1], t[2]) \in DOMAIN g.chunks
    THEN TerrainAt(g.chunks, t[1], t[2])
    ELSE DefaultTerrain

\* tiles of the world carrying painted (non-default) terrain
PaintedTiles(st) == {t \in WorldTiles(st) : TerrainOf(st.grid, t) # DefaultTerrain}

\* the centred square of side 2 * (width div 2) + 1 around every interpolated
\* centre of the segment a -> b, inside the world
CentredSquares(st, a, b, width) ==
    {t \in WorldTiles(st) :
        \E i \in 0 .. TileDist(a, b) :
            LET c == LineCentre(a, b, TileDist(a, b), i)
            IN  /\ Abs(t[1] - c[1]) <= width \div 2
                /\ Abs(t[2] - c[2]) <= width \div 2}

\* session i has processed exactly one way: a road of one segment of
\* dist > 0, not a bridge
OneLinePainted(i) ==
    /\ Len(hist[i]) = 1
    /\ hist[i][1].kind = "highway"
    /\ ~hist[i][1].feature.tags.bridge
    /\ Len(hist[i][1].feature.coords) = 2
    /\ TileDist(osm_to_ultima(sessions[i].bbox, sessions[i].map_size,
                              hist[i][1].feature.coords[1][1],
                              hist[i][1].feature.coords[1][2]),
                osm_to_ultima(sessions[i].bbox, sessions[i].map_size,
                              hist[i][1].feature.coords[2][1],
                              hist[i][1].feature.coords[2][2])) > 0

\* C19: painting a line of width w with dist > 0 paints, around each
\* interpolated tile centre, exactly the tiles offset by (wx, wy) with wx, wy
\* in [-(w div 2), +(w div 2)] that lie inside the world bounds: on a fresh
\* map the painted tiles are exactly those centred squares.
C19_CentredSquare ==
    \A i \in SessionIds :
        OneLinePainted(i) =>
            LET f == hist[i][1].feature
                a == osm_to_ultima(sessions[i].bbox, sessions[i].map_size,
                                   f.coords[1][1], f.coords[1][2])
                b == osm_to_ultima(sessions[i].bbox, sessions[i].map_size,
                                   f.coords[2][1], f.coords[2][2])
            IN  PaintedTiles(sessions[i]) =
                    CentredSquares(sessions[i], a, b, HIGHWAY_WIDTHS(f.tags.highway))

\* the tiles a segment touches in the road registry
SegmentTouched(st, start, end, width) ==
    LET a == osm_to_ultima(st.bbox, st.map_size, start[1], start[2])
        b == osm_to_ultima(st.bbox, st.map_size, end[1], end[2])
        dist == TileDist(a, b)
        n == OffsetCount(width)
    IN  IF dist = 0 THEN {a}
        ELSE {LineTile(a, b, dist, width, k) : k \in 0 .. (dist + 1) * n * n - 1}

\* the tiles the segments of a highway way touch
WayTouched(st, f) ==
    UNION {SegmentTouched(st, f.coords[j], f.coords[j + 1],
                          HIGHWAY_WIDTHS(f.tags.highway)) :
              j \in 1 .. Len(f.coords) - 1}

\* the step just taken by session i processed a highway way
HighwayStep(i) ==
    /\ Len(hist'[i]) = Len(hist[i]) + 1
    /\ hist'[i][Len(hist'[i])].kind = "highway"

\* C20: road tracking: a tile the way's segments touch that was already in
\* the road registry carries the "intersection" marker afterwards (for every
\* segment, also one whose two endpoints fall on the same tile), a touched
\* tile not yet registered is registered with the way's road category (or
\* the marker, once touched again), and no tile leaves the registry.
C20_RoadRegistry ==
    [][\A i \in SessionIds :
          HighwayStep(i) =>
              LET f == hist'[i][Len(hist'[i])].feature
                  before == sessions[i].road_tiles
                  after == sessions'[i].road_tiles
              IN  /\ DOMAIN before \subseteq DOMAIN after
                  /\ \A t \in WayTouched(sessions[i], f) :
                         /\ t \in DOMAIN after
                         /\ t \in DOMAIN before => after[t] = Intersection
                         /\ t \notin DOMAIN before =>
                                after[t] \in {f.tags.highway, Intersection}]_vars

\* the session that results from processing the ways of history h from its
\* n-th entry on, alone in its process
RECURSIVE Replay(_, _, _)
Replay(st, h, n) ==
    IF n > Len(h) THEN st
    ELSE Replay(process_highway(st, h[n].feature.tags, h[n].feature.coords), h, n + 1)

\* session i run alone with the seed on the features it has processed
Alone(i) ==
    Replay([MapGenerator(SessionBBox, SessionMapSize) EXCEPT !.rng = Seeded(seed)],
           hist[i], 1)

\* C18: each session owns its own random generator: with the operations of
\* two sessions interleaved in one process, the map and the road registry of
\* each session are those of the same session run alone with its seed.
C18_SessionsIndependent ==
    \A i \in SessionIds :
        /\ sessions[i].grid = Alone(i).grid
        /\ sessions[i].road_tiles = Alone(i).road_tiles

\* the objects a handler appended to the chunks of a grid, each as
\* <<chunk key, index in the chunk's list>>
Placed(before, after) ==
    UNION {{<<k, j>> : j \in (IF k \in DOMAIN before.chunks
                              THEN Len(before.chunks[k].objects) ELSE 0) + 1
                             .. Len(after.chunks[k].objects)} :
              k \in DOMAIN after.chunks}

\* those of them at a lift whose shape is in a set of ids
PlacedWith(before, after, lift, ids) ==
    {p \in Placed(before, after) :
        /\ after.chunks[p[1]].objects[p[2]].lift = lift
        /\ after.chunks[p[1]].objects[p[2]].shape \in ids}

\* the tiles a set of placed objects stands on
TilesUnder(g, placed) ==
    {<<g.chunks[p[1]].objects[p[2]].x, g.chunks[p[1]].objects[p[2]].y>> : p \in placed}

\* one object on each tile of the set, and no other
OneOnEach(g, placed, tiles) ==
    /\ TilesUnder(g, placed) = tiles
    /\ Cardinality(placed) = Cardinality(tiles)

\* number of objects of a grid standing on tile (x, y) at a lift, with a
\* shape of the list
ObjectsOn(g, x, y, lift, shapes) ==
    IF ChunkKey(x, y) \notin DOMAIN g.chunks THEN 0
    ELSE LET objs == g.chunks[ChunkKey(x, y)].objects
             ids == Range(shapes)
         IN  Cardinality({j \in 1..Len(objs) :
                             /\ objs[j].x = x /\ objs[j].y = y
                             /\ objs[j].lift = lift
                             /\ objs[j].shape \in ids})

\* the step just taken by session i was a building step
BuildingStep(i) ==
    /\ Len(hist'[i]) = Len(hist[i]) + 1
    /\ hist'[i][Len(hist'[i])].kind = "building"

\* the tiles of a box
TilesOf(box) == (box[1] .. box[3]) \X (box[2] .. box[4])

\* the tiles of a box on one of its four edges
Perimeter(box) ==
    {t \in TilesOf(box) : t[1] \in {box[1], box[3]} \/ t[2] \in {box[2], box[4]}}

\* every shape id an object can carry
ShapeIds == 0 .. 1023

\* C21: processing a building whose tile bounding box spans at least 3 tiles
\* each way leaves floor terrain on every tile of the box, and places exactly
\* one wall object at lift 0 on every perimeter tile and none on the other
\* tiles by the time the shell is raised (every one of them is there after
\* the step), exactly one door object, at ((min_x + max_x) div 2, max_y), and
\* exactly one object at lift 4, a roof, on every tile of the box.
C21_BuildingShell ==
    [][\A i \in SessionIds :
          (BuildingStep(i) /\ ~Degenerate(hist'[i][Len(hist'[i])].box)) =>
              \A box \in {hist'[i][Len(hist'[i])].box},
                 shapes \in {get_object_shapes(hist'[i][Len(hist'[i])].feature.building)},
                 before \in {sessions[i].grid}, after \in {sessions'[i].grid} :
                  \A shell \in {building_shell(Entered(i), shapes, box).grid},
                     placed \in {Placed(before, after)} :
                      /\ \A t \in TilesOf(box) :
                             TerrainOf(after, t) \in Range(FloorShapes)
                      /\ OneOnEach(shell,
                                   PlacedWith(before, shell, 0, Range(shapes.walls)),
                                   Perimeter(box))
                      /\ \A p \in Placed(before, shell) :
                             /\ p \in placed
                             /\ after.chunks[p[1]].objects[p[2]]
                                    = shell.chunks[p[1]].objects[p[2]]
                      /\ OneOnEach(after,
                                   PlacedWith(before, after, 0, Range(shapes.door)),
                                   {<<(box[1] + box[3]) \div 2, box[4]>>})
                      /\ OneOnEach(after,
                                   PlacedWith(before, after, RoofLift, ShapeIds),
                                   TilesOf(box))
                      /\ OneOnEach(after,
                                   PlacedWith(before, after, RoofLift, Range(shapes.roof)),
                                   TilesOf(box))]_vars

\* a house of 10 x 10 tiles and a shop of 3 x 3 tiles were processed: each
\* has its door on the south edge and a roof over its first corner
C21_Witness ==
    \E i \in SessionIds : \E n, m \in 1..Len(hist[i]) :
        /\ hist[i][n].kind = "building" /\ hist[i][m].kind = "building"
        /\ hist[i][n].box = <<1, 1, 10, 10>>
        /\ hist[i][m].box = <<25, 25, 27, 27>>
        /\ ObjectsOn(sessions[i].grid, 5, 10, 0, OBJECT_SHAPES["door"]) = 1
        /\ ObjectsOn(sessions[i].grid, 26, 27, 0, OBJECT_SHAPES["door"]) = 1
        /\ ObjectsOn(sessions[i].grid, 25, 25, RoofLift, OBJECT_SHAPES["roof_wood"]) = 1

\* the steps of session i in which _plan_rooms planned the rooms of an
\* interior
PlannedSteps(i) ==
    {n \in 1..Len(hist[i]) : hist[i][n].kind = "interior" /\ hist[i][n].rooms # <<>>}

\* number of rooms of a split interior, by building type
SplitRooms(building_type) ==
    CASE building_type \in {"house", "residential"} -> 2
      [] building_type \in {"shop", "retail", "commercial"} -> 2
      [] building_type = "tavern" -> 3
      [] building_type \in {"castle", "government"} -> 2
      [] OTHER -> 1

\* room b lies just below room a / just right of room a
Below(a, b) == b.min_y = a.max_y + 1 /\ b.min_x <= a.max_x /\ a.min_x <= b.max_x
RightOf(a, b) == b.min_x = a.max_x + 1 /\ b.min_y <= a.max_y /\ a.min_y <= b.max_y

\* the tiles of a row or of a column of a room
RowOf(room, y) == {<<x, y>> : x \in room.min_x .. room.max_x}
ColumnOf(room, x) == {<<x, y>> : y \in room.min_y .. room.max_y}

\* the lines a wall between two adjacent rooms can stand on: the last row
\* (column) of the first room, or the first row (column) of the second
SplitLinesOf(a, b) ==
    IF Below(a, b) THEN {RowOf(a, a.max_y), RowOf(b, b.min_y)}
    ELSE IF RightOf(a, b) THEN {ColumnOf(a, a.max_x), ColumnOf(b, b.min_x)}
    ELSE {}

\* wall objects on every tile of the line except exactly one
WalledWithDoorway(g, line) ==
    Cardinality({t \in line : ~WallAt(g, t[1], t[2])}) = 1

\* the rooms of a plan are as many as the building type and the extents ask
RoomCount(entry) ==
    LET box == entry.box
        rooms == entry.rooms
    IN  IF box[3] - box[1] < MinRoomSplit \/ box[4] - box[2] < MinRoomSplit
        THEN /\ Len(rooms) = 1
             /\ <<rooms[1].min_x, rooms[1].min_y, rooms[1].max_x, rooms[1].max_y>> = box
        ELSE Len(rooms) = SplitRooms(entry.feature.building)

\* every pair of adjacent rooms of a plan is parted by a wall with one doorway
SplitsWalled(g, entry) ==
    \A a, b \in Range(entry.rooms) :
        SplitLinesOf(a, b) # {} =>
            \E line \in SplitLinesOf(a, b) : WalledWithDoorway(g, line)

\* C22: room planning: an interior whose extent (max - min) is below 6 on a
\* side is one room spanning the whole interior; otherwise house and
\* residential give 2 rooms, shop, retail and commercial 2, tavern 3, castle
\* and government 2, any other type 1; and along each split line of a split
\* interior wall objects stand on every tile but exactly one, the doorway.
C22_RoomPlanning ==
    \A i \in SessionIds : \A n \in PlannedSteps(i) :
        /\ RoomCount(hist[i][n])
        /\ SplitsWalled(sessions[i].grid, hist[i][n])

\* the tiles of a room
RoomTiles(room) == (room.min_x .. room.max_x) \X (room.min_y .. room.max_y)

\* C27: the rooms _plan_rooms returns partition the interior: for every
\* building type and every interior planned, each room is a non-empty box
\* inside the interior, no two rooms share a tile, and every tile of the
\* interior lies in exactly one room.
C27_RoomsPartition ==
    \A i \in SessionIds : \A n \in PlannedSteps(i) :
        LET box == hist[i][n].box
            rooms == hist[i][n].rooms
        IN  /\ \A r \in 1..Len(rooms) :
                   /\ rooms[r].min_x <= rooms[r].max_x
                   /\ rooms[r].min_y <= rooms[r].max_y
                   /\ RoomTiles(rooms[r]) \subseteq TilesOf(box)
            /\ \A r, q \in 1..Len(rooms) :
                   r # q => RoomTiles(rooms[r]) \cap RoomTiles(rooms[q]) = {}
            /\ \A t \in TilesOf(box) :
                   Cardinality({r \in 1..Len(rooms) : t \in RoomTiles(rooms[r])}) = 1

\* a tavern interior planned as three rooms, and nothing but them
C27_Witness ==
    \E i \in SessionIds : \E n \in PlannedSteps(i) :
        /\ hist[i][n].feature.building = "tavern"
        /\ Len(hist[i][n].rooms) = 3
        /\ hist[i][n].rooms[2].type = "kitchen"
        /\ hist[i][n].rooms[3].min_y = hist[i][n].rooms[2].max_y + 1

\* the step just taken by session i generated an interior or furnished a room
FurnishingStep(i) ==
    /\ Len(hist'[i]) = Len(hist[i]) + 1
    /\ hist'[i][Len(hist'[i])].kind \in {"interior", "room"}

\* the shape ids of furniture
FurnitureIds == UNION {Range(FurnitureShapes(name)) : name \in {"table", "bed", "chest"}}

\* the tiles the items of a room's log were put on
FurnishedTiles(log) == {log[k].at : k \in {k \in 1..Len(log) : log[k].at # <<>>}}

\* C23: furnishing a room makes at most 10 placement attempts per furniture
\* item; each placed item lies inside the room's box, no two furniture
\* objects placed for the room stand on the same tile, an item whose 10
\* attempts all collide is dropped with no object added and no error, and
\* the room receives no more furniture objects than its list has items.
C23_Furnishing ==
    [][\A i \in SessionIds :
          FurnishingStep(i) =>
              \A entry \in {hist'[i][Len(hist'[i])]},
                 before \in {sessions[i].grid}, after \in {sessions'[i].grid} :
                  /\ entry.exc = None
                  /\ \A r \in 1..Len(entry.rooms) :
                         \A room \in {entry.rooms[r]}, log \in {entry.logs[r]} :
                             /\ \A k \in 1..Len(log) :
                                    /\ log[k].attempts + (IF log[k].at = <<>> THEN 0 ELSE 1)
                                           <= 10
                                    /\ log[k].at = <<>> => log[k].attempts = 10
                                    /\ log[k].at # <<>> => log[k].at \in RoomTiles(room)
                             /\ \A k, l \in 1..Len(log) :
                                    (k # l /\ log[k].at # <<>>) => log[k].at # log[l].at
                             /\ OneOnEach(after,
                                          {p \in PlacedWith(before, after, 0, FurnitureIds) :
                                              <<after.chunks[p[1]].objects[p[2]].x,
                                                after.chunks[p[1]].objects[p[2]].y>>
                                                  \in RoomTiles(room)},
                                          FurnishedTiles(log))
                             /\ Cardinality(FurnishedTiles(log))
                                    <= Len(FurnitureFor(entry.feature.building, room.type))]_vars

\* a room of one tile: the table was put on it and the chest, all of whose
\* 10 attempts collided with the table, was dropped
C23_Witness ==
    \E i \in SessionIds : \E n \in 1..Len(hist[i]) :
        /\ hist[i][n].kind = "room"
        /\ hist[i][n].exc = None
        /\ Len(hist[i][n].logs[1]) = 2
        /\ hist[i][n].logs[1][1].at = <<3, 3>>
        /\ hist[i][n].logs[1][2].at = <<>>
        /\ hist[i][n].logs[1][2].attempts = 10
        /\ ObjectsOn(sessions[i].grid, 3, 3, 0, FurnitureShapes("table")) = 1
        /\ ObjectsOn(sessions[i].grid, 3, 3, 0, FurnitureShapes("chest")) = 0

\* the step just taken by run r was its call of _place_building_npcs
OccupancyStep(r) == runs[r].pc = "seeded" /\ runs'[r].pc = "generated"

\* the profiles a handler appended
NewProfiles(before, after) ==
    {after.npc_profiles[p] : p \in Len(before.npc_profiles) + 1 .. Len(after.npc_profiles)}

\* C24: NPC occupancy of a building whose occupiable interior has extents
\* width and height (max - min, as the handler measures them) and area =
\* width * height: maxNpcs is 1 when area < 16, 2 when area < 36 and 3
\* otherwise, with spawn chance 0.40, 0.50 and 0.60; the building receives no
\* NPC when the probability sample exceeds the chance, otherwise at most
\* maxNpcs, each on a tile inside the interior that no other NPC of the
\* building occupies, and each placed NPC object has exactly one profile, at
\* its tile and with its shape.
C24_Occupancy ==
    [][\A r \in Runs :
          OccupancyStep(r) =>
              \A box \in {building[2]},
                 before \in {runs[r].st}, after \in {runs'[r].st} :
                  \A area \in {(box[3] - box[1]) * (box[4] - box[2])},
                     placed \in {Placed(before.grid, after.grid)},
                     profiles \in {NewProfiles(before, after)} :
                      \A maxNpcs \in {IF area < 16 THEN 1 ELSE IF area < 36 THEN 2 ELSE 3},
                         chance \in {IF area < 16 THEN 400 ELSE IF area < 36 THEN 500 ELSE 600} :
                          /\ RandomOf(Advance(before.rng)) > chance =>
                                 placed = {} /\ profiles = {}
                          /\ Cardinality(placed) <= maxNpcs
                          /\ TilesUnder(after.grid, placed) \subseteq TilesOf(box)
                          /\ Cardinality(TilesUnder(after.grid, placed)) = Cardinality(placed)
                          /\ Cardinality(profiles) = Cardinality(placed)
                          /\ \A p \in placed :
                                 Cardinality({profile \in profiles :
                                     /\ profile.location
                                            = <<after.grid.chunks[p[1]].objects[p[2]].x,
                                                after.grid.chunks[p[1]].objects[p[2]].y>>
                                     /\ profile.shape
                                            = after.grid.chunks[p[1]].objects[p[2]].shape}) = 1]_vars

\* a run that placed more than one NPC in the castle, each with its profile
C24_Witness ==
    \E r \in Runs :
        /\ runs[r].pc = "generated"
        /\ building[1] = "castle"
        /\ Len(runs[r].st.npc_profiles) >= 2
        /\ \A p \in 1..Len(runs[r].st.npc_profiles) :
               ObjectsOn(runs[r].st.grid, runs[r].st.npc_profiles[p].location[1],
                         runs[r].st.npc_profiles[p].location[2], 0,
                         <<runs[r].st.npc_profiles[p].shape>>) = 1

\* the road segments of the run of session i, each as <<index of its way in
\* the history, index of its first node in the way>>
SegmentsOf(i) ==
    UNION {{<<n, j>> : j \in 1 .. Len(hist[i][n].feature.coords) - 1} :
              n \in {m \in 1..Len(hist[i]) : hist[i][m].kind = "highway"}}

\* the tiles one segment of the run touches
TouchedBy(i, s) ==
    SegmentTouched(sessions[i], hist[i][s[1]].feature.coords[s[2]],
                   hist[i][s[1]].feature.coords[s[2] + 1],
                   HIGHWAY_WIDTHS(hist[i][s[1]].feature.tags.highway))

\* C29: a tile touched by only one road segment in the whole run is in the
\* road registry under that segment's road category, not as "intersection",
\* for every road width; and every tile whose terrain a road segment painted
\* is in the registry.
C29_SingleTouch ==
    \A i \in SessionIds :
        sessions[i].exc = None =>
            \A segments \in {SegmentsOf(i)} :
                /\ \A s \in segments :
                       \A t \in TouchedBy(i, s) :
                           (\A o \in segments \ {s} : t \notin TouchedBy(i, o)) =>
                               /\ t \in DOMAIN sessions[i].road_tiles
                               /\ sessions[i].road_tiles[t]
                                      = hist[i][s[1]].feature.tags.highway
                /\ PaintedTiles(sessions[i]) \subseteq DOMAIN sessions[i].road_tiles

\* the step just taken by session i was one iteration of the second pass of
\* its process_osm_data call
ElementStep(i) ==
    /\ i \in DOMAIN osm
    /\ osm[i].pc = "process"
    /\ osm'[i].next = osm[i].next + 1

\* the ids the node elements of a list define, wherever they stand in it
DefinedIds(elements) ==
    {elements[n].id : n \in {m \in 1..Len(elements) : elements[m].type = "node"}}

\* the position the list gives a defined id (its last definition)
PositionOf(elements, id) ==
    LET defs == {n \in 1..Len(elements) :
                    elements[n].type = "node" /\ elements[n].id = id}
        last == CHOOSE n \in defs : \A o \in defs : o <= n
    IN  <<elements[last].lon, elements[last].lat>>

\* the positions of the resolvable ids of a way's node list, in its order
ResolvableCoords(elements, ids) ==
    LET kept == SelectSeq(ids, LAMBDA id : id \in DefinedIds(elements))
    IN  [k \in 1..Len(kept) |-> PositionOf(elements, kept[k])]

\* C25: a way that references unresolvable point ids is processed using only
\* its resolvable points, in their original order, wherever the point
\* definitions stand in the input list relative to the way (the session after
\* the step is the one the way's handler produces from those points); a way
\* with no node list or with no resolvable point is skipped and leaves the
\* grid, the road registry and the NPC registry unchanged.
C25_ResolvablePoints ==
    [][\A i \in SessionIds :
          (ElementStep(i) /\ osm[i].elements[osm[i].next].type = "way") =>
              \A way \in {osm[i].elements[osm[i].next]} :
                  \A ids \in {IF "nodes" \in DOMAIN way THEN way.nodes ELSE <<>>} :
                      \A coords \in {ResolvableCoords(osm[i].elements, ids)} :
                          IF coords = <<>>
                          THEN /\ sessions'[i].grid = sessions[i].grid
                               /\ sessions'[i].road_tiles = sessions[i].road_tiles
                               /\ sessions'[i].npc_profiles = sessions[i].npc_profiles
                          ELSE sessions'[i] =
                                   [way_handler(Entered(i), way.tags, coords,
                                                Len(ids) > 2 /\ ids[1] = ids[Len(ids)])
                                       EXCEPT !.rng = 0]]_vars

\* a footway processed before its nodes were listed, whose node list names
\* an unknown id between two known ones, has entered the road registry
C25_Witness ==
    \E i \in SessionIds :
        /\ i \in DOMAIN osm
        /\ osm[i].next > 1
        /\ osm[i].elements[1].type = "way"
        /\ "nodes" \in DOMAIN osm[i].elements[1]
        /\ \E a, b, c \in 1..Len(osm[i].elements[1].nodes) :
               /\ a < b /\ b < c
               /\ osm[i].elements[1].nodes[a] \in DefinedIds(osm[i].elements)
               /\ osm[i].elements[1].nodes[b] \notin DefinedIds(osm[i].elements)
               /\ osm[i].elements[1].nodes[c] \in DefinedIds(osm[i].elements)
        /\ Cardinality(DOMAIN sessions[i].road_tiles) > 4

\* the step just taken by session i was the default-terrain fill that ends
\* its process_osm_data call
FillStep(i) ==
    /\ i \in DOMAIN osm
    /\ osm[i].pc = "process"
    /\ osm'[i].pc = "done"

\* the tiles whose terrain the feature steps of session i wrote
FeaturePainted(i) == UNION {hist[i][n].written : n \in 1..Len(hist[i])}

\* C30: the final default-terrain fill creates every chunk of the W x H grid
\* and changes only tiles that no feature painted: every tile whose terrain
\* a line, polygon or building step wrote has the same terrain id after the
\* fill as before it.
C30_FillKeepsPainted ==
    [][\A i \in SessionIds :
          FillStep(i) =>
              /\ \A key \in (0 .. sessions[i].map_size[1] - 1)
                            \X (0 .. sessions[i].map_size[2] - 1) :
                     key \in DOMAIN sessions'[i].grid.chunks
              /\ \A t \in FeaturePainted(i) :
                     TerrainOf(sessions'[i].grid, t) = TerrainOf(sessions[i].grid, t)]_vars

\* C26: after any sequence of feature-processing steps of a session whose
\* world is W x H chunks, every chunk key (cx, cy) of its grid has
\* 0 <= cx < W and 0 <= cy < H, and the tile of every placed object has
\* 0 <= x < 16 * W and 0 <= y < 16 * H.
C26_GridBounds ==
    \A i \in SessionIds :
        \A key \in DOMAIN sessions[i].grid.chunks :
            /\ 0 <= key[1] /\ key[1] < sessions[i].map_size[1]
            /\ 0 <= key[2] /\ key[2] < sessions[i].map_size[2]
            /\ \A j \in 1..Len(sessions[i].grid.chunks[key].objects) :
                   \A obj \in {sessions[i].grid.chunks[key].objects[j]} :
                       /\ 0 <= obj.x /\ obj.x < TilesPerChunk * sessions[i].map_size[1]
                       /\ 0 <= obj.y /\ obj.y < TilesPerChunk * sessions[i].map_size[2]

\* a river of width 3 drawn along the world's western edge (its squares
\* reach column -1) has been painted up to the edge, and objects are placed
C26_Witness ==
    \E i \in SessionIds :
        /\ \E n \in 1..Len(hist[i]) :
               /\ hist[i][n].kind = "element"
               /\ hist[i][n].feature.type = "way"
               /\ HasTag(hist[i][n].feature.tags, "waterway")
               /\ <<0, 4>> \in hist[i][n].written
        /\ TerrainOf(sessions[i].grid, <<0, 4>>) = TERRAIN_SHAPES["water"][1]
        /\ \E key \in DOMAIN sessions[i].grid.chunks :
               sessions[i].grid.chunks[key].objects # <<>>

\* the superchunk (row, col) of a chunk: a 16 x 16-chunk block
SuperchunkOf(key) ==
    <<key[2] \div ChunksPerSuperchunk, key[1] \div ChunksPerSuperchunk>>

\* the chunks of a grid that hold objects
Populated(g) == {key \in DOMAIN g.chunks : g.chunks[key].objects # <<>>}

\* C28: objects whose chunks lie in different superchunks never go to the
\* same output stream, for every world size: the streams export_ireg names
\* for populated chunks of distinct (superchunk row, superchunk col) carry
\* distinct indices row * 12 + col.
C28_StreamsApart ==
    \A i \in SessionIds :
        exports # <<>> =>
            \A a, b \in Populated(sessions[i].grid) :
                SuperchunkOf(a) # SuperchunkOf(b) =>
                    /\ SuperchunkIndex(a) # SuperchunkIndex(b)
                    /\ IregFileName(SuperchunkIndex(a)) # IregFileName(SuperchunkIndex(b))

====
